---- MODULE Spec2Model ----
(***************************************************************************)
(* Verification model of the PDF editor's editing core:                    *)
(*   - useDocumentElements (element list, selection, undo/redo history),   *)
(*   - useClipboard (copy / paste with a 5 minute staleness window),       *)
(*   - ElementHandles (move / resize pointer gestures),                    *)
(*   - MainCanvas (the event handlers that drive the hooks),               *)
(*   - usePDF and ExportManager (documents, text and image export),        *)
(*   - ShapeDrawer, SearchPanel, App's layers and comments, and            *)
(*     PerformanceOptimizer (culling, visible pages, render cache).        *)
(*                                                                         *)
(* React semantics used throughout: an event handler runs against the      *)
(* values of the render it was created in (its closure); the state updates *)
(* it queues are applied in order before the next event is handled.  One   *)
(* TLA+ action is one event handler together with the render that follows. *)
(* Updater functions (setX(prev => ...)) see the latest queued value;      *)
(* values read from the closure (historyIndex, history, clipboard,         *)
(* dragState) are those of the render.                                     *)
(***************************************************************************)
EXTENDS Integers, Sequences, FiniteSets, TLC

VARIABLES
  elements,            \* useDocumentElements: PDFElement[] (or Undefined)
  selectedElementIds,  \* useDocumentElements: string[]
  history,             \* useDocumentElements: PDFElement[][]
  historyIndex,        \* useDocumentElements: number
  clipboard,           \* useClipboard: ClipboardData | null
  now,                 \* Date.now(), in milliseconds
  nextId,              \* source of element ids; the program builds them from
                       \*   Date.now() and Math.random(), taken never to repeat
  selectedTool,        \* MainCanvas: selected tool id
  zoom,                \* MainCanvas: zoom percentage
  dragState,           \* ElementHandles: DragState | null, per mounted instance
  listeners,           \* document-level mousemove/mouseup listeners, in order
  currentDocument,     \* usePDF: PDFDocument | null
  isLoading,           \* usePDF
  error,               \* usePDF
  pending,             \* usePDF: asynchronous operations in flight
  loadTrail,           \* observer: the usePDF events since an operation was
                       \*   last started with none in flight
  exported,            \* the last plain-text export: its result, the document
                       \*   and options it was given, the element list then
  drawingState,        \* ShapeDrawer: DrawingState | null (the first page's)
  searchPanel,         \* SearchPanel: its document prop and its state (searchTerm,
                       \*   searchResults, currentResultIndex, pending debounce
                       \*   timer), or Null while it is not mounted
  highlightedElementId,\* App: string | null
  layers,              \* App: ElementLayer[]
  comments,            \* App: Comment[]
  renderCache,         \* PerformanceOptimizer: Map<string, string>, as its
                       \*   entries in insertion order
  probe,               \* the last call of a PerformanceOptimizer or
                       \*   ExportManager function: its arguments and result
  trail                \* observer: what the last handler did (not program state)

vars == <<elements, selectedElementIds, history, historyIndex, clipboard, now,
          nextId, selectedTool, zoom, dragState, listeners, currentDocument,
          isLoading, error, pending, loadTrail, exported, drawingState, searchPanel,
          highlightedElementId, layers, comments, renderCache, probe, trail>>

-----------------------------------------------------------------------------
(* Bounds of the model *)

MaxIds == 4          \* element ids ever generated
MaxIndex == 4        \* cap on historyIndex explored
MaxNow == 300002     \* cap on the clock
MaxInflight == 1     \* usePDF operations in flight at once
MaxLoads == 2        \* the same, where loads race
MaxLoadEvents == 5   \* usePDF events followed while loads race
MaxLayers == 2       \* layers created
MaxComments == 4     \* comments and replies created
MaxCap == 2          \* render cache size caps
MaxPages == 3        \* length of a scrolled list
ImagePages == 3      \* pages of a document exported as an image
MaxMatches == 10     \* results pushed by the match loop for one element
MaxScroll == 12      \* scroll offsets, in steps of ScrollStep
ScrollStep == 50
MaxListeners == 2    \* pointer-downs without an intervening pointer-up
MinCoord == 70       \* drags are explored while x and y stay within
MaxCoord == 130      \*   MinCoord..MaxCoord
EditorIds == 3       \* elements added in the editor specification
DragIds == 1         \* elements added in the gesture specifications
CopyIds == 2         \* elements added before copying
MaxZoom == 125       \* zoom levels explored
MinZoom == 75
MaxResizes == 1      \* resize writes explored per element
ShapeIds == 2        \* shapes drawn

(* Program constants *)

StaleAfterMs == 300000
MinSize == 20
DefaultOffset == 10
CascadeStep == 5
DefaultFontSize == 16
LetterWidth == 612
LetterHeight == 792

NoId == 0            \* the '' id of a clipboard copy
BaseDpi == 72        \* renderPageToImage: 'scaleFactor = dpi / 72'
DefaultDpi == 300    \* exportToImage: 'dpi = 300' when the option is absent
DefaultLayerId == 0  \* the id 'default' of the layer App starts with

\* JavaScript's null, where an object is expected
Null == [null |-> TRUE]

\* JavaScript's undefined, where an element list is expected (an array read
\* past its end): a list no handler can build, holding one marker entry
Undefined ==
  <<[id |-> NoId, type |-> "undefined", pageNumber |-> 0, x |-> 0, y |-> 0,
     width |-> 0, height |-> 0, text |-> ""]>>

\* an optional argument that was not passed
NotGiven == [given |-> FALSE]
Given(v) == [given |-> TRUE, value |-> v]

Min(a, b) == IF a < b THEN a ELSE b
Max(a, b) == IF a > b THEN a ELSE b

Ids == 1..MaxIds

-----------------------------------------------------------------------------
(* JavaScript array helpers *)

\* arr[i] with a 0-based index: undefined outside the array
At(arr, i) == IF i >= 0 /\ i < Len(arr) THEN arr[i + 1] ELSE Undefined

\* arr.slice(0, n)
SliceTo(arr, n) == SubSeq(arr, 1, Min(Max(n, 0), Len(arr)))

Includes(arr, v) == \E i \in 1..Len(arr) : arr[i] = v

\* { ...el, ...updates }
Spread(el, updates) ==
  [f \in DOMAIN el |-> IF f \in DOMAIN updates THEN updates[f] ELSE el[f]]

-----------------------------------------------------------------------------
(* src/src/hooks/useDocumentElements.ts                                     *)
(* The hook's state as one record, so that a handler that makes several     *)
(* calls can thread the queued updates through them in order.               *)

Store == [elements |-> elements, sel |-> selectedElementIds,
          history |-> history, historyIndex |-> historyIndex]

\* createTextElement: width is text.length * fontSize * 0.6
createTextElement(id, pageNumber, x, y, text) ==
  [id |-> id, type |-> "text", pageNumber |-> pageNumber, x |-> x, y |-> y,
   width |-> (Len(text) * DefaultFontSize * 6) \div 10,
   height |-> DefaultFontSize, text |-> text]

\* the history update shared by addElement / updateElement / removeElement:
\* setHistory(prev => prev.slice(0, historyIndex + 1).push([...newElements]))
\* with historyIndex read from the closure (h), and
\* setHistoryIndex(prev => prev + 1)
PushSnapshot(S, h, newElements) ==
  [S EXCEPT !.elements = newElements,
            !.history = Append(SliceTo(@, h + 1), newElements),
            !.historyIndex = @ + 1]

addElement(S, h, element) ==
  PushSnapshot(S, h, Append(S.elements, element))

updateElement(S, h, id, updates) ==
  PushSnapshot(S, h,
    [i \in 1..Len(S.elements) |->
       IF S.elements[i].id = id THEN Spread(S.elements[i], updates)
       ELSE S.elements[i]])

removeElement(S, h, id) ==
  LET T == PushSnapshot(S, h, SelectSeq(S.elements, LAMBDA el : el.id # id))
  IN [T EXCEPT !.sel = SelectSeq(@, LAMBDA selectedId : selectedId # id)]

\* a selectElement whose additive mode only ever adds
selectElementAddOnly(S, id, addToSelection) ==
  [S EXCEPT !.sel =
     IF addToSelection
     THEN IF Includes(@, id) THEN @ ELSE Append(@, id)
     ELSE <<id>>]

selectElement(S, id, addToSelection) ==
  [S EXCEPT !.sel =
     IF addToSelection
     THEN IF Includes(@, id) THEN SelectSeq(@, LAMBDA selectedId : selectedId # id)
          ELSE Append(@, id)
     ELSE <<id>>]

clearSelection(S) == [S EXCEPT !.sel = <<>>]

getSelectedElements(S) ==
  SelectSeq(S.elements, LAMBDA el : Includes(S.sel, el.id))

\* undo / redo read history and historyIndex from the closure (R is the
\* render's state) and queue setElements(value), setHistoryIndex(prev => ...)
undo(R) ==
  IF R.historyIndex > 0
  THEN [R EXCEPT !.elements = At(R.history, R.historyIndex - 1),
                 !.historyIndex = @ - 1]
  ELSE R

\* a redo that restores the snapshot at the old cursor instead of the new one
redoOldCursor(R) ==
  IF R.historyIndex < Len(R.history) - 1
  THEN [R EXCEPT !.elements = At(R.history, R.historyIndex),
                 !.historyIndex = @ + 1]
  ELSE R

redo(R) ==
  IF R.historyIndex < Len(R.history) - 1
  THEN [R EXCEPT !.elements = At(R.history, R.historyIndex + 1),
                 !.historyIndex = @ + 1]
  ELSE R

canUndo == historyIndex > 0
canRedo == historyIndex < Len(history) - 1

-----------------------------------------------------------------------------
(* src/unnamed/part_002: useClipboard *)

\* copyElements: every element is copied with its id replaced by ''
StripId(element) == [element EXCEPT !.id = NoId]

copyElements(clip, els, t) ==
  IF Len(els) = 0 THEN clip
  ELSE [elements |-> [i \in 1..Len(els) |-> StripId(els[i])], timestamp |-> t]

\* a staleness test that also rejects data aged exactly five minutes
IsStaleAtFiveMinutes(clip, t) == t - clip.timestamp >= StaleAfterMs

IsStale(clip, t) == t - clip.timestamp > StaleAfterMs

\* pasteElements(targetPageNumber, offsetX, offsetY): the returned elements and
\* the clipboard afterwards.  firstId is the first of the fresh ids; index is
\* the 0-based position in the clipboard.
\* a paste that puts every element at the same offset, without the cascade
PastedElementNoCascade(element, index, firstId, targetPageNumber, offsetX, offsetY) ==
  [element EXCEPT
     !.id = firstId + index,
     !.pageNumber = IF targetPageNumber.given THEN targetPageNumber.value ELSE @,
     !.x = @ + offsetX,
     !.y = @ + offsetY]

PastedElement(element, index, firstId, targetPageNumber, offsetX, offsetY) ==
  [element EXCEPT
     !.id = firstId + index,
     !.pageNumber = IF targetPageNumber.given THEN targetPageNumber.value ELSE @,
     !.x = @ + offsetX + index * CascadeStep,
     !.y = @ + offsetY + index * CascadeStep]

pasteElements(clip, t, firstId, targetPageNumber, offsetX, offsetY) ==
  IF clip = Null THEN [result |-> <<>>, clipboard |-> clip]
  ELSE IF IsStale(clip, t) THEN [result |-> <<>>, clipboard |-> Null]
  ELSE [result |-> [i \in 1..Len(clip.elements) |->
                      PastedElement(clip.elements[i], i - 1, firstId,
                                    targetPageNumber, offsetX, offsetY)],
        clipboard |-> clip]

hasClipboardData(clip, t) ==
  IF clip = Null THEN FALSE ELSE t - clip.timestamp <= StaleAfterMs

-----------------------------------------------------------------------------
(* src/src/utils/pdfUtils.ts, src/src/hooks/usePDF.ts *)

\* createNewPDF: one letter-size page; the object has no 'elements' key, so
\* document.elements reads as undefined
createNewPDF ==
  [fileName |-> "new-document.pdf",
   pages |-> <<[pageNumber |-> 1, width |-> LetterWidth, height |-> LetterHeight]>>,
   elements |-> Undefined]

\* loadPDFFromBytes: pages numbered 1..numPages; no 'elements' key either
loadPDFFromBytes(numPages, fileName) ==
  [fileName |-> fileName,
   pages |-> [i \in 1..numPages |->
                [pageNumber |-> i, width |-> LetterWidth, height |-> LetterHeight]],
   elements |-> Undefined]

-----------------------------------------------------------------------------
(* src/unnamed/part_010: ExportManager *)

getFilteredPages(document, pageRange) ==
  IF pageRange = Null THEN document.pages
  ELSE SelectSeq(document.pages,
         LAMBDA page : page.pageNumber >= pageRange.from
                       /\ page.pageNumber <= pageRange.to)

\* Array.prototype.sort((a, b) => a.y - b.y): a stable sort by y
RECURSIVE InsertByY(_, _)
InsertByY(sorted, el) ==
  IF sorted = <<>> THEN <<el>>
  ELSE IF el.y < Head(sorted).y THEN <<el>> \o sorted
       ELSE <<Head(sorted)>> \o InsertByY(Tail(sorted), el)

RECURSIVE SortByY(_)
SortByY(arr) ==
  IF arr = <<>> THEN <<>>
  ELSE InsertByY(SortByY(SubSeq(arr, 1, Len(arr) - 1)), arr[Len(arr)])

PageMarker(pageNumber) == <<"=== Page", pageNumber>>
TextLine(text) == <<"text", text>>
BlankLine == <<"blank", 0>>

RECURSIVE TextLines(_)
TextLines(textElements) ==
  IF textElements = <<>> THEN <<>>
  ELSE <<TextLine(Head(textElements).text)>> \o TextLines(Tail(textElements))

\* exportToText: the output as a sequence of lines; it throws a TypeError
\* (undefined.filter) when this.document.elements is undefined and there is a
\* page to export
RECURSIVE TextOfPages(_, _, _)
TextOfPages(document, pages, includeText) ==
  IF pages = <<>> THEN <<>>
  ELSE LET page == Head(pages)
           textElements ==
             SortByY(SelectSeq(document.elements,
                       LAMBDA el : el.pageNumber = page.pageNumber /\ el.type = "text"))
       IN <<PageMarker(page.pageNumber), BlankLine>>
          \o (IF includeText THEN TextLines(textElements) ELSE <<>>)
          \o <<BlankLine>>
          \o TextOfPages(document, Tail(pages), includeText)

exportToText(document, options) ==
  LET pages == getFilteredPages(document, options.pageRange)
  IN IF pages # <<>> /\ document.elements = Undefined
     THEN [threw |-> TRUE, lines |-> <<>>]
     ELSE [threw |-> FALSE,
           lines |-> TextOfPages(document, pages, options.includeText)]

\* renderPageToImage(page, ...): the canvas takes the size of the page at the
\* scale dpi / 72 and the page is painted on it; renderElementsOnCanvas then
\* calls this.document.elements.filter(...), a TypeError on a document
\* without 'elements', which rejects the export after the page was painted
renderPageToImage(document, page, dpi) ==
  [threw |-> document.elements = Undefined,
   painted |-> <<page.pageNumber>>,
   canvasWidth |-> (page.width * dpi) \div BaseDpi,
   canvasHeight |-> (page.height * dpi) \div BaseDpi]

\* exportToImage(format): both branches of 'pages.length === 1' pass pages[0]
\* to renderPageToImage; with no page left by the filter pages[0] is
\* undefined and reading page.width throws before anything is painted
exportToImage(document, options) ==
  LET dpi == IF options.dpi.given THEN options.dpi.value ELSE DefaultDpi
      pages == getFilteredPages(document, options.pageRange)
  IN IF pages = <<>>
     THEN [threw |-> TRUE, painted |-> <<>>, canvasWidth |-> 0,
           canvasHeight |-> 0]
     ELSE renderPageToImage(document, pages[1], dpi)

-----------------------------------------------------------------------------
(* src/src/types/elements.ts: ElementHandles *)

\* (e.clientX - dragState.startX) / (zoom / 100); the pointer positions of the
\* model are chosen so that the quotient is exact
ScreenToDoc(d, z) == (d * 100) \div z

\* the DragState that handleMouseDown stores
NewDragState(element, type, resizeHandle, clientX, clientY) ==
  [dragType |-> type, resizeHandle |-> resizeHandle,
   startX |-> clientX, startY |-> clientY,
   startElementX |-> element.x, startElementY |-> element.y,
   startElementWidth |-> element.width, startElementHeight |-> element.height]

\* the switch on dragState.resizeHandle: the geometry the drag asks for
RequestedGeometry(ds, deltaX, deltaY) ==
  LET hd == ds.resizeHandle
      west == hd \in {"nw", "w", "sw"}
      east == hd \in {"ne", "e", "se"}
      north == hd \in {"nw", "n", "ne"}
      south == hd \in {"sw", "s", "se"}
  IN [width |-> IF west THEN ds.startElementWidth - deltaX
                ELSE IF east THEN ds.startElementWidth + deltaX
                ELSE ds.startElementWidth,
      height |-> IF north THEN ds.startElementHeight - deltaY
                 ELSE IF south THEN ds.startElementHeight + deltaY
                 ELSE ds.startElementHeight,
      x |-> IF west THEN ds.startElementX + deltaX ELSE ds.startElementX,
      y |-> IF north THEN ds.startElementY + deltaY ELSE ds.startElementY]

\* a resize that writes the requested size as it is
NoClamp(v) == v

\* Math.max(20, newWidth), Math.max(20, newHeight)
ClampSize(v) == Max(MinSize, v)

\* the updates object passed to onUpdate by handleMouseMove
DragUpdates(ds, deltaX, deltaY) ==
  IF ds.dragType = "move"
  THEN [x |-> ds.startElementX + deltaX, y |-> ds.startElementY + deltaY]
  ELSE LET g == RequestedGeometry(ds, deltaX, deltaY)
       IN [x |-> g.x, y |-> g.y,
           width |-> ClampSize(g.width), height |-> ClampSize(g.height)]

\* one registered mousemove listener L = [ds, id, h, zoom]: the dragState,
\* element id, historyIndex and zoom of the render in which its
\* handleMouseDown was created
ListenerFires(L) == L.ds # Null

handleMouseMove(S, L, clientX, clientY) ==
  IF ~ListenerFires(L) THEN S
  ELSE updateElement(S, L.h, L.id,
         DragUpdates(L.ds, ScreenToDoc(clientX - L.ds.startX, L.zoom),
                           ScreenToDoc(clientY - L.ds.startY, L.zoom)))

\* a mousemove event runs every registered listener, in registration order
RECURSIVE DispatchMouseMove(_, _, _, _)
DispatchMouseMove(S, Ls, clientX, clientY) ==
  IF Ls = <<>> THEN S
  ELSE DispatchMouseMove(handleMouseMove(S, Head(Ls), clientX, clientY),
                         Tail(Ls), clientX, clientY)

FiringListeners(Ls) == SelectSeq(Ls, ListenerFires)

\* PDFViewer renders an ElementHandles instance for every selected element
\* that lies on a page of the document (and nothing while MainCanvas shows
\* the loading spinner)
Mounted(id, S, document, loading) ==
  /\ ~loading
  /\ document # Null
  /\ S.elements # Undefined
  /\ Includes(S.sel, id)
  /\ \E i \in 1..Len(S.elements) :
       /\ S.elements[i].id = id
       /\ \E j \in 1..Len(document.pages) :
            document.pages[j].pageNumber = S.elements[i].pageNumber

\* an instance that unmounts loses its dragState
Remount(ds, S, document, loading) ==
  [id \in Ids |-> IF Mounted(id, S, document, loading) THEN ds[id] ELSE Null]

ElementById(els, id) == CHOOSE el \in {els[i] : i \in 1..Len(els)} : el.id = id

-----------------------------------------------------------------------------
(* The observer.  trail records what the last handler did and follows the    *)
(* "k mutations, k undos, k redos" scenario; no action reads it.             *)

NoWrite == [made |-> FALSE]
\* gesture.len0 is the length of the history up to the cursor at pointer-down
NoGesture == [state |-> "idle", len0 |-> 0, moves |-> 0]
NoPaste == [made |-> FALSE]

InitTrail ==
  [phase |-> "mut", k |-> 0, n |-> 0, saved |-> <<>>,
   copied |-> <<>>, paste |-> NoPaste, write |-> NoWrite, gesture |-> NoGesture]

ScenarioOff(t) == [t EXCEPT !.phase = "off", !.k = 0, !.n = 0, !.saved = <<>>]

\* c mutation calls (addElement / updateElement / removeElement) were made
AfterMutations(t, c) ==
  IF c = 0 \/ t.phase = "off" THEN t
  ELSE IF t.phase = "mut" THEN [t EXCEPT !.k = @ + c]
  ELSE ScenarioOff(t)

AfterUndo(t, before) ==
  IF t.phase = "mut" /\ t.k > 0
  THEN [t EXCEPT !.phase = "undo", !.n = 1, !.saved = before]
  ELSE IF t.phase = "undo" /\ t.n < t.k THEN [t EXCEPT !.n = @ + 1]
  ELSE ScenarioOff(t)

AfterRedo(t) ==
  IF t.phase = "undo" /\ t.n = t.k THEN [t EXCEPT !.phase = "redo", !.n = 1]
  ELSE IF t.phase = "redo" /\ t.n < t.k THEN [t EXCEPT !.n = @ + 1]
  ELSE ScenarioOff(t)

\* a handler other than a pointer event ran: any gesture being followed is
\* no longer a plain down / move / up sequence
Did(t, c) ==
  [AfterMutations(t, c) EXCEPT !.paste = NoPaste, !.write = NoWrite,
                               !.gesture = NoGesture]

\* a pointer event ran
DidPointer(t, c, w, g) ==
  [AfterMutations(t, c) EXCEPT !.paste = NoPaste, !.write = w, !.gesture = g]

-----------------------------------------------------------------------------
(* Inputs *)

ToolIds == {"select", "text", "image", "shape", "pen", "highlighter"}
Handles == {"nw", "n", "ne", "w", "e", "sw", "s", "se"}
Texts == {"Hello"}
ClickXs == {100}
ClickYs == {100}
\* pointer positions, as <<clientX, clientY>>: multiples of 15, so that the
\* division by zoom / 100 is exact at the zoom levels explored
DragMoves == {<<30, 15>>, <<-60, -30>>}
ResizeMoves == {<<30, 30>>, <<-60, -60>>}
PageCounts == {1, 2}
ClockSteps == {StaleAfterMs}
\* pointer positions of a shape gesture, as <<clientX, clientY>>
ShapePoints == {<<20, 20>>, <<29, 29>>, <<70, 25>>, <<25, 70>>, <<80, 80>>}
\* the document prop of the search panel: a document as usePDF builds it, and
\* documents that carry text elements
SearchTexts == {<<"Hello">>, <<"Hello", "hell">>, <<"lll", "Hello">>}
SearchDocuments ==
  {createNewPDF}
  \cup {[createNewPDF EXCEPT
          !.elements = [i \in 1..Len(ts) |->
                          createTextElement(i, 1, 100, 100, ts[i])]] :
         ts \in SearchTexts}
SearchTerms == {"", " ", "l", "ll", "hell"}
\* texts and patterns of the match loop: literals, and patterns that match
\* the empty string
LoopTexts == {"", "l", "Hello", "lll", "hell lo", "L l"}
LoopPatterns ==
  {[kind |-> "lit", s |-> t] : t \in {"l", "ll", "hell"}}
  \cup {[kind |-> k, s |-> "l"] : k \in {"star", "opt"}}
  \cup {[kind |-> k, s |-> ""] : k \in {"bol", "eol"}}
\* elements and viewports given to cullElements: a viewport of 100 x 100 at
\* (100, 100) or (40, 60), and squares of 10 inside it, touching its edges
\* and corners, and one unit beyond them at zoom 100
CullXs == {80, 89, 90, 120, 200, 201}
CullElementSet ==
  {[id |-> 0, type |-> "shape", pageNumber |-> 1, x |-> x, y |-> y,
    width |-> 10, height |-> 10, shapeType |-> "rectangle"] :
   x \in CullXs, y \in {90, 120, 201}}
CullLists ==
  {<<a>> : a \in CullElementSet}
  \cup {<<a, b>> : a \in {e \in CullElementSet : e.y = 120},
                   b \in {e \in CullElementSet : e.x = 120}}
CullViewports ==
  {[x |-> 100, y |-> 100, width |-> 100, height |-> 100],
   [x |-> 40, y |-> 60, width |-> 100, height |-> 100]}
CullZooms == {50, 100, 200}
LayerNames == {"Notes"}
LayerUpdates ==
  {[name |-> "Renamed"], [visible |-> FALSE], [visible |-> TRUE],
   [locked |-> TRUE], [locked |-> FALSE]}
\* documents given to the image export: of 1..ImagePages pages, as
\* loadPDFFromBytes builds them and with an element list
ImageDocuments ==
  {loadPDFFromBytes(n, "a.pdf") : n \in 1..ImagePages}
  \cup {[loadPDFFromBytes(n, "a.pdf") EXCEPT
           !.elements = <<createTextElement(1, 1, 100, 100, "Hello")>>] :
         n \in 1..ImagePages}
\* page ranges below, within, across and beyond the pages of the document,
\* and ranges whose ends are swapped
ImageRanges ==
  {Null} \cup {[from |-> f, to |-> t] : f, t \in 0..(ImagePages + 1)}
ImageOptions ==
  {[format |-> fm, dpi |-> d, pageRange |-> r] :
     fm \in {"png", "jpg"}, d \in {NotGiven, Given(BaseDpi)},
     r \in ImageRanges}
ExportOptions ==
  {[pageRange |-> r, includeText |-> TRUE] : r \in {Null, [from |-> 1, to |-> 1]}}

-----------------------------------------------------------------------------
(* State *)

Init ==
  /\ elements = <<>>
  /\ selectedElementIds = <<>>
  /\ history = << <<>> >>
  /\ historyIndex = 0
  /\ clipboard = Null
  /\ now = 0
  /\ nextId = 1
  /\ selectedTool = "select"
  /\ zoom = 100
  /\ dragState = [id \in Ids |-> Null]
  /\ listeners = <<>>
  /\ currentDocument = Null
  /\ isLoading = FALSE
  /\ error = Null
  /\ pending = <<>>
  /\ loadTrail = <<>>
  /\ exported = Null
  /\ drawingState = Null
  /\ searchPanel = Null
  /\ highlightedElementId = Null
  /\ layers = <<[id |-> DefaultLayerId, name |-> "Default Layer", visible |-> TRUE,
                  locked |-> FALSE]>>
  /\ comments = <<>>
  /\ renderCache = <<>>
  /\ probe = Null
  /\ trail = InitTrail

\* a render with elements undefined throws (MainCanvas reads elements.length,
\* PDFViewer calls elements.filter) and React unmounts the application
Crashed == elements = Undefined

\* PDFViewer is on screen with a document
ViewerShown == ~Crashed /\ currentDocument # Null /\ ~isLoading

pdfVars == <<currentDocument, isLoading, error, pending, loadTrail>>
sideVars == <<searchPanel, highlightedElementId, layers, comments, renderCache,
             probe>>
hookVars == <<elements, selectedElementIds, history, historyIndex>>

\* the hook's state after a handler, and the ElementHandles instances of the
\* render that follows
SetStore(S, ds) ==
  /\ elements' = S.elements
  /\ selectedElementIds' = S.sel
  /\ history' = S.history
  /\ historyIndex' = S.historyIndex
  /\ dragState' = Remount(ds, S, currentDocument, isLoading)

-----------------------------------------------------------------------------
(* src/unnamed/part_008: MainCanvas handlers, one action per handler *)

\* PDFViewer.handleTextSave -> handleAddTextElement -> addTextElement
AddText(pageNumber, x, y, text) ==
  /\ ViewerShown
  /\ selectedTool = "text"
  /\ \E j \in 1..Len(currentDocument.pages) :
       currentDocument.pages[j].pageNumber = pageNumber
  /\ nextId <= MaxIds
  /\ historyIndex < MaxIndex
  /\ SetStore(addElement(Store, historyIndex,
                         createTextElement(nextId, pageNumber, x, y, text)),
              dragState)
  /\ nextId' = nextId + 1
  /\ trail' = Did(trail, 1)
  /\ UNCHANGED <<drawingState, sideVars>>
  /\ UNCHANGED <<clipboard, now, selectedTool, zoom, listeners, pdfVars, exported>>

\* click on a rendered element: handleSelectElement
SelectElement(id) ==
  /\ ViewerShown
  /\ \E i \in 1..Len(elements) : elements[i].id = id
  /\ SetStore(selectElement(Store, id, FALSE), dragState)
  /\ trail' = Did(trail, 0)
  /\ UNCHANGED <<drawingState, sideVars>>
  /\ UNCHANGED <<clipboard, now, nextId, selectedTool, zoom, listeners, pdfVars,
                 exported>>

\* handlePageClick: a click on empty space clears the selection with the
\* select tool
PageClick ==
  /\ ViewerShown
  /\ selectedTool = "select"
  /\ SetStore(clearSelection(Store), dragState)
  /\ trail' = Did(trail, 0)
  /\ UNCHANGED <<drawingState, sideVars>>
  /\ UNCHANGED <<clipboard, now, nextId, selectedTool, zoom, listeners, pdfVars,
                 exported>>

\* a handleToolChange that clears the selection for every tool
handleToolChangeClearAlways(toolId) ==
  /\ ~Crashed
  /\ selectedTool' = toolId
  /\ SetStore(clearSelection(Store), dragState)
  /\ trail' = Did(trail, 0)
  /\ drawingState' = IF toolId = "shape" /\ selectedTool = "shape"
                     THEN drawingState ELSE Null
  /\ UNCHANGED sideVars
  /\ UNCHANGED <<clipboard, now, nextId, zoom, listeners, pdfVars, exported>>

handleToolChange(toolId) ==
  /\ ~Crashed
  /\ selectedTool' = toolId
  /\ SetStore(IF toolId # "select" THEN clearSelection(Store) ELSE Store, dragState)
  /\ trail' = Did(trail, 0)
  /\ drawingState' = IF toolId = "shape" /\ selectedTool = "shape"
                     THEN drawingState ELSE Null
  /\ UNCHANGED sideVars
  /\ UNCHANGED <<clipboard, now, nextId, zoom, listeners, pdfVars, exported>>

\* handleSelectAll: elements.forEach(element => selectElement(element.id, true))
RECURSIVE SelectEach(_, _)
SelectEach(S, ids) ==
  IF ids = <<>> THEN S
  ELSE SelectEach(selectElement(S, Head(ids), TRUE), Tail(ids))

IdsOf(els) == [i \in 1..Len(els) |-> els[i].id]

handleSelectAll ==
  /\ ~Crashed
  /\ SetStore(SelectEach(Store, IdsOf(elements)), dragState)
  /\ trail' = Did(trail, 0)
  /\ UNCHANGED <<drawingState, sideVars>>
  /\ UNCHANGED <<clipboard, now, nextId, selectedTool, zoom, listeners, pdfVars,
                 exported>>

\* handleDelete: selectedElementIds.forEach(id => removeElement(id)); every
\* call is the removeElement of this render, so all use its historyIndex
RECURSIVE RemoveEach(_, _, _)
RemoveEach(S, h, ids) ==
  IF ids = <<>> THEN S
  ELSE RemoveEach(removeElement(S, h, Head(ids)), h, Tail(ids))

handleDelete ==
  /\ ~Crashed
  /\ selectedElementIds # <<>>
  /\ historyIndex + Len(selectedElementIds) <= MaxIndex
  /\ SetStore(RemoveEach(Store, historyIndex, selectedElementIds), dragState)
  /\ trail' = Did(trail, Len(selectedElementIds))
  /\ UNCHANGED <<drawingState, sideVars>>
  /\ UNCHANGED <<clipboard, now, nextId, selectedTool, zoom, listeners, pdfVars,
                 exported>>

\* the delete button of an ElementHandles instance: handleDeleteElement
DeleteElement(id) ==
  /\ ViewerShown
  /\ Mounted(id, Store, currentDocument, isLoading)
  /\ historyIndex < MaxIndex
  /\ SetStore(removeElement(Store, historyIndex, id), dragState)
  /\ trail' = Did(trail, 1)
  /\ UNCHANGED <<drawingState, sideVars>>
  /\ UNCHANGED <<clipboard, now, nextId, selectedTool, zoom, listeners, pdfVars,
                 exported>>

handleCopy ==
  /\ ~Crashed
  /\ LET selectedElements == getSelectedElements(Store)
     IN /\ Len(selectedElements) > 0
        /\ clipboard' = copyElements(clipboard, selectedElements, now)
        /\ trail' = [Did(trail, 0) EXCEPT !.copied = selectedElements]
  /\ UNCHANGED <<drawingState, sideVars>>
  /\ UNCHANGED <<hookVars, dragState, now, nextId, selectedTool, zoom, listeners,
                 pdfVars, exported>>

\* handlePaste.  hasClipboardData and pasteElements each read Date.now(); the
\* clock may move by d between the two reads.
RECURSIVE AddEach(_, _, _)
AddEach(S, h, els) ==
  IF els = <<>> THEN S
  ELSE AddEach(addElement(S, h, Head(els)), h, Tail(els))

PasteTarget ==
  IF currentDocument # Null /\ currentDocument.pages # <<>>
  THEN currentDocument.pages[1].pageNumber
  ELSE 1

handlePaste(d) ==
  /\ ~Crashed
  /\ now + d <= MaxNow
  /\ hasClipboardData(clipboard, now)
  /\ LET r == pasteElements(clipboard, now + d, nextId, Given(PasteTarget),
                            DefaultOffset, DefaultOffset)
         n == Len(r.result)
     IN /\ nextId + n - 1 <= MaxIds
        /\ historyIndex + n <= MaxIndex
        /\ SetStore(SelectEach(clearSelection(AddEach(Store, historyIndex, r.result)),
                               IdsOf(r.result)),
                    dragState)
        /\ clipboard' = r.clipboard
        /\ nextId' = nextId + n
        /\ trail' = [Did(trail, n) EXCEPT
                       !.paste = [made |-> TRUE, result |-> r.result,
                                  time |-> now + d, clip |-> clipboard]]
  /\ now' = now + d
  /\ UNCHANGED <<drawingState, sideVars>>
  /\ UNCHANGED <<selectedTool, zoom, listeners, pdfVars, exported>>

\* the Undo / Redo buttons and shortcuts call the hook's undo() / redo()
Undo ==
  /\ ~Crashed
  /\ SetStore(undo(Store), dragState)
  /\ trail' = AfterUndo(Did(trail, 0), elements)
  /\ UNCHANGED <<drawingState, sideVars>>
  /\ UNCHANGED <<clipboard, now, nextId, selectedTool, zoom, listeners, pdfVars,
                 exported>>

Redo ==
  /\ ~Crashed
  /\ historyIndex < MaxIndex
  /\ SetStore(redo(Store), dragState)
  /\ trail' = AfterRedo(Did(trail, 0))
  /\ UNCHANGED <<drawingState, sideVars>>
  /\ UNCHANGED <<clipboard, now, nextId, selectedTool, zoom, listeners, pdfVars,
                 exported>>

\* time passes
Tick(d) ==
  /\ ~Crashed
  /\ now + d <= MaxNow
  /\ now' = now + d
  /\ UNCHANGED <<drawingState, sideVars>>
  /\ UNCHANGED <<hookVars, clipboard, nextId, selectedTool, zoom, dragState,
                 listeners, pdfVars, exported, trail>>

-----------------------------------------------------------------------------
(* src/src/types/elements.ts: ElementHandles pointer events *)

\* onMouseDown on the move handle (type "move") or on one of the eight
\* resize handles of the instance of element id
handleMouseDown(id, type, resizeHandle, clientX, clientY) ==
  /\ ViewerShown
  /\ Mounted(id, Store, currentDocument, isLoading)
  /\ Len(listeners) < MaxListeners
  /\ dragState' = [dragState EXCEPT
                     ![id] = NewDragState(ElementById(elements, id), type,
                                          resizeHandle, clientX, clientY)]
  /\ listeners' = Append(listeners, [ds |-> dragState[id], id |-> id,
                                     h |-> historyIndex, zoom |-> zoom])
  /\ trail' = DidPointer(trail, 0, NoWrite,
                 IF listeners = <<>>
                 THEN [state |-> "dragging", moves |-> 0,
                       len0 |-> Len(SliceTo(history, historyIndex + 1))]
                 ELSE NoGesture)
  /\ UNCHANGED <<drawingState, sideVars>>
  /\ UNCHANGED <<hookVars, clipboard, now, nextId, selectedTool, zoom, pdfVars,
                 exported>>

\* what the last listener that fired wrote, when it was a resize
LastWrite(Ls, clientX, clientY) ==
  LET F == FiringListeners(Ls)
  IN IF F = <<>> THEN NoWrite
     ELSE LET L == F[Len(F)]
              dX == ScreenToDoc(clientX - L.ds.startX, L.zoom)
              dY == ScreenToDoc(clientY - L.ds.startY, L.zoom)
          IN IF L.ds.dragType # "resize" THEN NoWrite
             ELSE [made |-> TRUE, id |-> L.id, handle |-> L.ds.resizeHandle,
                   requested |-> RequestedGeometry(L.ds, dX, dY),
                   updates |-> DragUpdates(L.ds, dX, dY)]

InExploredArea(S) ==
  \A i \in 1..Len(S.elements) :
    /\ S.elements[i].x \in MinCoord..MaxCoord
    /\ S.elements[i].y \in MinCoord..MaxCoord

\* a mousemove event on the document while listeners are registered
MouseMove(clientX, clientY) ==
  /\ ~Crashed
  /\ listeners # <<>>
  /\ LET c == Len(FiringListeners(listeners))
     IN /\ historyIndex + c <= MaxIndex
        /\ SetStore(DispatchMouseMove(Store, listeners, clientX, clientY), dragState)
        /\ trail' = DidPointer(trail, c,
                       LastWrite(listeners, clientX, clientY),
                       IF trail.gesture.state = "dragging"
                       THEN [trail.gesture EXCEPT !.moves = Min(@ + 1, 2)]
                       ELSE NoGesture)
  /\ UNCHANGED <<drawingState, sideVars>>
  /\ UNCHANGED <<clipboard, now, nextId, selectedTool, zoom, listeners, pdfVars,
                 exported>>

\* a mouseup event: every handleMouseUp clears its instance's dragState and
\* removes its pair of listeners
MouseUp ==
  /\ ~Crashed
  /\ listeners # <<>>
  /\ dragState' = [id \in Ids |->
                     IF \E i \in 1..Len(listeners) : listeners[i].id = id
                     THEN Null ELSE dragState[id]]
  /\ listeners' = <<>>
  /\ trail' = DidPointer(trail, 0, NoWrite,
                 IF trail.gesture.state = "dragging"
                 THEN [trail.gesture EXCEPT !.state = "done"]
                 ELSE NoGesture)
  /\ UNCHANGED <<drawingState, sideVars>>
  /\ UNCHANGED <<hookVars, clipboard, now, nextId, selectedTool, zoom, pdfVars,
                 exported>>

\* MainCanvas zoom buttons
ZoomStep == 25
ZoomMax == 500
ZoomMin == 25

handleZoomIn ==
  /\ ~Crashed
  /\ zoom' = Min(zoom + ZoomStep, ZoomMax)
  /\ UNCHANGED <<drawingState, sideVars>>
  /\ UNCHANGED <<hookVars, clipboard, now, nextId, selectedTool, dragState,
                 listeners, pdfVars, exported, trail>>

handleZoomOut ==
  /\ ~Crashed
  /\ zoom' = Max(zoom - ZoomStep, ZoomMin)
  /\ UNCHANGED <<drawingState, sideVars>>
  /\ UNCHANGED <<hookVars, clipboard, now, nextId, selectedTool, dragState,
                 listeners, pdfVars, exported, trail>>

handleZoomFit ==
  /\ ~Crashed
  /\ zoom' = 100
  /\ UNCHANGED <<drawingState, sideVars>>
  /\ UNCHANGED <<hookVars, clipboard, now, nextId, selectedTool, dragState,
                 listeners, pdfVars, exported, trail>>

-----------------------------------------------------------------------------
(* src/src/hooks/usePDF.ts and src/unnamed/part_001 (App) *)

\* usePDF's state as one record
PdfState == [currentDocument |-> currentDocument, isLoading |-> isLoading,
             error |-> error]

SetPdf(S) ==
  /\ currentDocument' = S.currentDocument
  /\ isLoading' = S.isLoading
  /\ error' = S.error

\* loadPDF / createNew before the await: setIsLoading(true); setError(null)
operationStart(S) == [S EXCEPT !.isLoading = TRUE, !.error = Null]

\* a try-branch that replaces the document only while none is open
operationTryKeepFirst(S, document) ==
  IF S.currentDocument = Null THEN [S EXCEPT !.currentDocument = document] ELSE S

\* the try-branch after the await: setCurrentDocument(document)
operationTry(S, document) == [S EXCEPT !.currentDocument = document]

\* a catch-branch that also closes the document
operationCatchClosing(S, errorMessage) ==
  [S EXCEPT !.currentDocument = Null, !.error = [message |-> errorMessage]]

\* the catch-branch: setError(errorMessage)
operationCatch(S, errorMessage) == [S EXCEPT !.error = [message |-> errorMessage]]

\* finally: setIsLoading(false)
operationFinally(S) == [S EXCEPT !.isLoading = FALSE]

\* the observer after an operation was started
Started(t) ==
  IF pending = <<>> THEN <<[ev |-> "started", prev |-> Null, document |-> Null]>>
  ELSE Append(t, [ev |-> "started", prev |-> Null, document |-> Null])

\* handleNewFile -> createNew, up to its await
createNewStart ==
  /\ ~Crashed
  /\ Len(pending) < MaxLoads
  /\ SetPdf(operationStart(PdfState))
  /\ pending' = Append(pending, [kind |-> "create"])
  /\ loadTrail' = Started(loadTrail)
  /\ dragState' = Remount(dragState, Store, currentDocument, TRUE)
  /\ drawingState' = Null
  /\ UNCHANGED sideVars
  /\ UNCHANGED <<hookVars, clipboard, now, nextId, selectedTool, zoom, listeners,
                 exported, trail>>

\* handleOpenFile -> loadPDF(bytes, fileName), up to its await
loadPDFStart(numPages, fileName) ==
  /\ ~Crashed
  /\ Len(pending) < MaxLoads
  /\ SetPdf(operationStart(PdfState))
  /\ pending' = Append(pending, [kind |-> "load", numPages |-> numPages,
                                 fileName |-> fileName])
  /\ loadTrail' = Started(loadTrail)
  /\ dragState' = Remount(dragState, Store, currentDocument, TRUE)
  /\ drawingState' = Null
  /\ UNCHANGED sideVars
  /\ UNCHANGED <<hookVars, clipboard, now, nextId, selectedTool, zoom, listeners,
                 exported, trail>>

RemoveAt(seq, i) == SubSeq(seq, 1, i - 1) \o SubSeq(seq, i + 1, Len(seq))

ResultOf(op) ==
  IF op.kind = "create" THEN createNewPDF
  ELSE loadPDFFromBytes(op.numPages, op.fileName)

\* the awaited promise of the i-th operation in flight resolves
\* (try-branch, then finally)
operationResolves(i) ==
  /\ ~Crashed
  /\ i \in 1..Len(pending)
  /\ SetPdf(operationFinally(operationTry(PdfState, ResultOf(pending[i]))))
  /\ pending' = RemoveAt(pending, i)
  /\ loadTrail' = Append(loadTrail, [ev |-> "resolved", prev |-> Null,
                                     document |-> ResultOf(pending[i])])
  /\ dragState' = Remount(dragState, Store, ResultOf(pending[i]), FALSE)
  /\ UNCHANGED <<drawingState, sideVars>>
  /\ UNCHANGED <<hookVars, clipboard, now, nextId, selectedTool, zoom, listeners,
                 exported, trail>>

\* the awaited promise of the i-th operation in flight rejects
\* (catch-branch, then finally)
operationRejects(i) ==
  /\ ~Crashed
  /\ i \in 1..Len(pending)
  /\ pending[i].kind = "load"
  /\ SetPdf(operationFinally(operationCatch(PdfState, "Failed to load PDF")))
  /\ pending' = RemoveAt(pending, i)
  /\ loadTrail' = Append(loadTrail, [ev |-> "rejected", prev |-> currentDocument,
                                     document |-> Null])
  /\ dragState' = Remount(dragState, Store, currentDocument, FALSE)
  /\ UNCHANGED <<drawingState, sideVars>>
  /\ UNCHANGED <<hookVars, clipboard, now, nextId, selectedTool, zoom, listeners,
                 exported, trail>>

\* the close button of App's error banner, which is rendered while error is
\* set: onClick={() => clearDocument()}, that is setCurrentDocument(null) and
\* setError(null)
clearDocument ==
  /\ ~Crashed
  /\ error # Null
  /\ SetPdf([PdfState EXCEPT !.currentDocument = Null, !.error = Null])
  /\ loadTrail' = Append(loadTrail, [ev |-> "dismissed", prev |-> currentDocument,
                                     document |-> Null])
  /\ dragState' = Remount(dragState, Store, Null, isLoading)
  /\ drawingState' = Null
  /\ UNCHANGED <<pending, sideVars>>
  /\ UNCHANGED <<hookVars, clipboard, now, nextId, selectedTool, zoom, listeners,
                 exported, trail>>

\* App.handleExport with format 'txt': exportDocument(currentDocument, options)
handleExport(options) ==
  /\ ~Crashed
  /\ currentDocument # Null
  /\ exported' = [result |-> exportToText(currentDocument, options),
                   document |-> currentDocument, options |-> options,
                   of |-> elements]
  /\ trail' = Did(trail, 0)
  /\ UNCHANGED <<drawingState, sideVars>>
  /\ UNCHANGED <<hookVars, clipboard, now, nextId, selectedTool, zoom, dragState,
                 listeners, pdfVars>>

-----------------------------------------------------------------------------
(* src/src/components/ShapeDrawer.tsx: the drawing overlay of a page, which *)
(* PDFViewer renders while the shape tool is selected                       *)

MinShapeSize == 10

Abs(a) == IF a < 0 THEN -a ELSE a

\* createShapeElement, with the fields of the drawn shape that ...options
\* copies over it
createShapeElement(id, pageNumber, x, y, width, height, shapeType) ==
  [id |-> id, type |-> "shape", pageNumber |-> pageNumber, x |-> x, y |-> y,
   width |-> width, height |-> height, shapeType |-> shapeType]

\* onMouseDown on the overlay; the overlay's origin is the page's
ShapeMouseDown(clientX, clientY) ==
  /\ ViewerShown
  /\ selectedTool = "shape"
  /\ drawingState' = [isDrawing |-> TRUE,
                      startX |-> ScreenToDoc(clientX, zoom),
                      startY |-> ScreenToDoc(clientY, zoom),
                      currentX |-> ScreenToDoc(clientX, zoom),
                      currentY |-> ScreenToDoc(clientY, zoom)]
  /\ UNCHANGED <<hookVars, dragState, clipboard, now, nextId, selectedTool, zoom,
                 listeners, pdfVars, exported, trail, sideVars>>

ShapeMouseMove(clientX, clientY) ==
  /\ ViewerShown
  /\ selectedTool = "shape"
  /\ drawingState # Null
  /\ drawingState' = [drawingState EXCEPT
                        !.currentX = ScreenToDoc(clientX, zoom),
                        !.currentY = ScreenToDoc(clientY, zoom)]
  /\ UNCHANGED <<hookVars, dragState, clipboard, now, nextId, selectedTool, zoom,
                 listeners, pdfVars, exported, trail, sideVars>>

\* the gesture of this drawing state is dropped by handleMouseUp
TooSmall(ds) ==
  \/ Abs(ds.currentX - ds.startX) < MinShapeSize
  \/ Abs(ds.currentY - ds.startY) < MinShapeSize

\* the shape handleMouseUp passes to onShapeComplete
DrawnShape(ds, id, pageNumber) ==
  createShapeElement(id, pageNumber,
                     Min(ds.startX, ds.currentX), Min(ds.startY, ds.currentY),
                     Abs(ds.currentX - ds.startX), Abs(ds.currentY - ds.startY),
                     "rectangle")

\* onMouseUp on the overlay: handleMouseUp, then onShapeComplete ->
\* PDFViewer.handleShapeComplete -> MainCanvas.handleAddShapeElement ->
\* addShapeElement -> addElement
ShapeMouseUp ==
  /\ ViewerShown
  /\ selectedTool = "shape"
  /\ drawingState # Null
  /\ drawingState' = Null
  /\ IF TooSmall(drawingState)
     THEN UNCHANGED <<hookVars, dragState, nextId, trail>>
     ELSE /\ nextId <= MaxIds
          /\ historyIndex < MaxIndex
          /\ SetStore(addElement(Store, historyIndex,
                                 DrawnShape(drawingState, nextId, 1)),
                      dragState)
          /\ nextId' = nextId + 1
          /\ trail' = Did(trail, 1)
  /\ UNCHANGED <<clipboard, now, selectedTool, zoom, listeners, pdfVars, exported,
                 sideVars>>

-----------------------------------------------------------------------------
(* src/unnamed/part_005: SearchPanel.  The panel searches the elements of   *)
(* its document prop.  App passes usePDF's currentDocument, which carries   *)
(* no elements; the prop's type admits documents that do, and the panel is  *)
(* modelled for both.  Search options are the defaults: no regular          *)
(* expression, no whole words, case-insensitive.                            *)

\* the number NaN, as an integer that no index computation yields
NaN == -2

\* String.prototype.toLowerCase, on the letters of the texts explored
LowerChar(c) == IF c = "H" THEN "h" ELSE IF c = "L" THEN "l" ELSE c

RECURSIVE ToLower(_)
ToLower(str) ==
  IF Len(str) = 0 THEN ""
  ELSE LowerChar(SubSeq(str, 1, 1)) \o ToLower(SubSeq(str, 2, Len(str)))

\* searchTerm.trim() is empty
RECURSIVE IsBlank(_)
IsBlank(str) ==
  \/ Len(str) = 0
  \/ SubSeq(str, 1, 1) = " " /\ IsBlank(SubSeq(str, 2, Len(str)))

\* searchPattern.exec(text) with the 'gi' flags, repeated from lastIndex until
\* it returns null: the matches of the escaped term, left to right, each
\* resuming where the previous one ended
RECURSIVE ExecAll(_, _, _)
ExecAll(text, term, lastIndex) ==
  LET n == Len(term)
      found == {i \in lastIndex..(Len(text) - n) :
                  ToLower(SubSeq(text, i + 1, i + n)) = ToLower(term)}
  IN IF found = {} THEN <<>>
     ELSE LET i == CHOOSE k \in found : \A j \in found : k <= j
          IN <<[matchStart |-> i, matchEnd |-> i + n]>>
             \o ExecAll(text, term, i + n)

\* the results of one element
ElementResults(element, term) ==
  LET ms == ExecAll(element.text, term, 0)
  IN [k \in 1..Len(ms) |->
        [elementId |-> element.id, pageNumber |-> element.pageNumber,
         text |-> element.text, matchStart |-> ms[k].matchStart,
         matchEnd |-> ms[k].matchEnd]]

RECURSIVE ResultsOf(_, _)
ResultsOf(textElements, term) ==
  IF textElements = <<>> THEN <<>>
  ELSE ElementResults(Head(textElements), term)
       \o ResultsOf(Tail(textElements), term)

\* performSearch, on the panel's state
performSearch(P) ==
  IF IsBlank(P.searchTerm) THEN [P EXCEPT !.searchResults = <<>>]
  ELSE LET els == IF P.document.elements = Undefined THEN <<>>
                  ELSE P.document.elements
           textElements == SelectSeq(els, LAMBDA el : el.type = "text")
       IN [P EXCEPT !.searchResults = ResultsOf(textElements, P.searchTerm),
                    !.currentResultIndex = 0]

\* navigateToResult(index): the panel's state after it, the element it
\* highlights, and whether it threw
navigateToResult(P, index) ==
  IF index # NaN /\ (index < 0 \/ index >= Len(P.searchResults))
  THEN [panel |-> P, highlight |-> Null, threw |-> FALSE]
  ELSE IF index = NaN
  THEN \* searchResults[NaN] is undefined: result.elementId throws after the
       \* index was set
       [panel |-> [P EXCEPT !.currentResultIndex = NaN],
        highlight |-> Null, threw |-> TRUE]
  ELSE [panel |-> [P EXCEPT !.currentResultIndex = index],
        highlight |-> [id |-> P.searchResults[index + 1].elementId],
        threw |-> FALSE]

\* a next that stops at the last result
NextIndexNoWrap(P) == Min(P.currentResultIndex + 1, Len(P.searchResults) - 1)

\* (currentResultIndex + 1) % searchResults.length
NextIndex(P) ==
  IF P.currentResultIndex = NaN \/ Len(P.searchResults) = 0 THEN NaN
  ELSE (P.currentResultIndex + 1) % Len(P.searchResults)

\* currentResultIndex > 0 ? currentResultIndex - 1 : searchResults.length - 1
PreviousIndex(P) ==
  IF P.currentResultIndex # NaN /\ P.currentResultIndex > 0
  THEN P.currentResultIndex - 1
  ELSE Len(P.searchResults) - 1

\* The match loop of performSearch with useRegex, one exec call at a time.
\* A pattern is [kind, s]: "lit" the literal s, "star" the character s
\* repeated zero or more times (s*), "opt" the character s or nothing (s?),
\* "bol" the start of the text (^), "eol" its end ($); flags 'gi'.

\* the number of consecutive characters c of text after position i
RECURSIVE RunLength(_, _, _)
RunLength(text, c, i) ==
  IF i < Len(text) /\ ToLower(SubSeq(text, i + 1, i + 1)) = ToLower(c)
  THEN 1 + RunLength(text, c, i + 1)
  ELSE 0

\* the length of the match of pattern that starts at position i of text, or
\* -1 when there is none
MatchLength(text, pattern, i) ==
  IF pattern.kind = "lit"
  THEN IF /\ i + Len(pattern.s) <= Len(text)
          /\ ToLower(SubSeq(text, i + 1, i + Len(pattern.s))) = ToLower(pattern.s)
       THEN Len(pattern.s) ELSE -1
  ELSE IF pattern.kind = "star" THEN RunLength(text, pattern.s, i)
  ELSE IF pattern.kind = "opt" THEN Min(1, RunLength(text, pattern.s, i))
  ELSE IF pattern.kind = "bol" THEN (IF i = 0 THEN 0 ELSE -1)
  ELSE IF i = Len(text) THEN 0 ELSE -1

\* RegExp.prototype.exec with the g flag: the first match at or after
\* lastIndex, or null (also when lastIndex is beyond the end of the text)
exec(text, pattern, lastIndex) ==
  LET found == {i \in lastIndex..Len(text) : MatchLength(text, pattern, i) >= 0}
  IN IF found = {} THEN Null
     ELSE LET i == CHOOSE k \in found : \A j \in found : k <= j
          IN [index |-> i, length |-> MatchLength(text, pattern, i)]

\* a loop body that leaves lastIndex where exec put it
LastIndexAfterExec(m) == m.index + m.length

\* lastIndex after the loop body: exec leaves it at the end of the match, and
\* 'if (match[0].length === 0) searchPattern.lastIndex++'
LastIndexAfterMatch(m) ==
  IF m.length = 0 THEN m.index + m.length + 1 ELSE m.index + m.length

\* App state outside the search panel, and the utility calls
panelVars == <<layers, comments, renderCache, probe>>

editorVars == <<hookVars, dragState, clipboard, now, nextId, selectedTool, zoom,
                listeners, pdfVars, exported, drawingState, trail>>

\* the panel is mounted with document as its prop; its first effect arms
\* the debounce timer
OpenSearch(document) ==
  /\ searchPanel = Null
  /\ searchPanel' = [document |-> document, searchTerm |-> "",
                     searchResults |-> <<>>, currentResultIndex |-> 0,
                     timer |-> TRUE]
  /\ UNCHANGED <<editorVars, highlightedElementId, panelVars>>

\* onClose (the close button or Escape) unmounts the panel
CloseSearch ==
  /\ searchPanel # Null
  /\ searchPanel' = Null
  /\ UNCHANGED <<editorVars, highlightedElementId, panelVars>>

\* typing in the search box: a new performSearch, and the effect re-arms the
\* debounce timer
SetSearchTerm(term) ==
  /\ searchPanel # Null
  /\ term # searchPanel.searchTerm
  /\ searchPanel' = [searchPanel EXCEPT !.searchTerm = term, !.timer = TRUE]
  /\ UNCHANGED <<editorVars, highlightedElementId, panelVars>>

\* the debounce timer fires
SearchTimerFires ==
  /\ searchPanel # Null
  /\ searchPanel.timer
  /\ searchPanel' = [performSearch(searchPanel) EXCEPT !.timer = FALSE]
  /\ UNCHANGED <<editorVars, highlightedElementId, panelVars>>

Navigate(index) ==
  LET r == navigateToResult(searchPanel, index)
  IN /\ searchPanel' = r.panel
     /\ highlightedElementId' = IF r.highlight = Null THEN highlightedElementId
                                ELSE r.highlight
     /\ UNCHANGED <<editorVars, panelVars>>

\* the next button (shown with results) or Enter in the search box
handleNext ==
  /\ searchPanel # Null
  /\ Navigate(NextIndex(searchPanel))

\* the previous button (shown with results) or Shift+Enter
handlePrevious ==
  /\ searchPanel # Null
  /\ Navigate(PreviousIndex(searchPanel))

\* textElements.forEach reaches an element: a new RegExp, lastIndex 0
MatchLoopStart(text, pattern) ==
  /\ IF probe = Null THEN TRUE ELSE probe.call = "matchLoop" /\ probe.done
  /\ probe' = [call |-> "matchLoop", text |-> text, pattern |-> pattern,
               lastIndex |-> 0, results |-> <<>>, done |-> FALSE]
  /\ UNCHANGED <<editorVars, searchPanel, highlightedElementId, layers, comments,
                 renderCache>>

\* one evaluation of the while condition and, on a match, of the loop body
MatchLoopStep ==
  /\ probe # Null /\ probe.call = "matchLoop" /\ ~probe.done
  /\ Len(probe.results) < MaxMatches
  /\ LET m == exec(probe.text, probe.pattern, probe.lastIndex)
     IN probe' = IF m = Null
                 THEN [probe EXCEPT !.done = TRUE, !.lastIndex = 0]
                 ELSE [probe EXCEPT
                         !.results = Append(@, [matchStart |-> m.index,
                                                matchEnd |-> m.index + m.length]),
                         !.lastIndex = LastIndexAfterMatch(m)]
  /\ UNCHANGED <<editorVars, searchPanel, highlightedElementId, layers, comments,
                 renderCache>>

\* handleHighlightElement's timeout clears the highlight
HighlightExpires ==
  /\ highlightedElementId # Null
  /\ highlightedElementId' = Null
  /\ UNCHANGED <<editorVars, searchPanel, panelVars>>

-----------------------------------------------------------------------------
(* src/unnamed/part_001 (App) and src/src/components/LayerManager.tsx:      *)
(* layers.  A created layer's id is 'layer-' and Date.now(); ids are taken *)
(* from nextId, as those of elements are.                                   *)

layerVars == <<hookVars, dragState, clipboard, now, selectedTool, zoom, listeners,
               pdfVars, exported, drawingState, trail, searchPanel,
               highlightedElementId, comments, renderCache, probe>>

HasLayer(layerId) == \E i \in 1..Len(layers) : layers[i].id = layerId

\* LayerManager.handleCreateLayer -> App.handleCreateLayer
handleCreateLayer(name) ==
  /\ nextId <= MaxIds
  /\ layers' = Append(layers, [id |-> nextId, name |-> name, visible |-> TRUE,
                               locked |-> FALSE])
  /\ nextId' = nextId + 1
  /\ UNCHANGED layerVars

\* handleSaveEdit, handleToggleVisibility, handleToggleLock ->
\* App.handleUpdateLayer
handleUpdateLayer(layerId, updates) ==
  /\ HasLayer(layerId)
  /\ layers' = [i \in 1..Len(layers) |->
                  IF layers[i].id = layerId THEN Spread(layers[i], updates)
                  ELSE layers[i]]
  /\ UNCHANGED <<layerVars, nextId>>

\* the delete button of a layer -> App.handleDeleteLayer
handleDeleteLayer(layerId) ==
  /\ HasLayer(layerId)
  /\ layers' = IF Len(layers) > 1
               THEN SelectSeq(layers, LAMBDA layer : layer.id # layerId)
               ELSE layers
  /\ UNCHANGED <<layerVars, nextId>>

IndexOf(arr, v) == CHOOSE i \in 1..Len(arr) : arr[i] = v

\* arr.splice(i, 1) and arr.splice(i, 0, v), with 1-based i
SpliceOut(arr, i) == SubSeq(arr, 1, i - 1) \o SubSeq(arr, i + 1, Len(arr))
SpliceIn(arr, i, v) ==
  SubSeq(arr, 1, Min(i - 1, Len(arr))) \o <<v>> \o SubSeq(arr, i, Len(arr))

\* App.handleReorderLayers: layerIds.map(id => layers.find(...)).filter(Boolean)
ReorderedLayers(layerIds) ==
  LET known == SelectSeq(layerIds, LAMBDA id : HasLayer(id))
  IN [k \in 1..Len(known) |->
        layers[CHOOSE i \in 1..Len(layers) :
                 /\ layers[i].id = known[k]
                 /\ \A j \in 1..(i - 1) : layers[j].id # known[k]]]

\* a layer is dropped on another: LayerManager.handleDrop ->
\* App.handleReorderLayers
handleDrop(draggedLayerId, targetLayerId) ==
  /\ HasLayer(draggedLayerId)
  /\ HasLayer(targetLayerId)
  /\ draggedLayerId # targetLayerId
  /\ LET currentOrder == IdsOf(layers)
         draggedIndex == IndexOf(currentOrder, draggedLayerId)
         targetIndex == IndexOf(currentOrder, targetLayerId)
         newOrder == SpliceIn(SpliceOut(currentOrder, draggedIndex), targetIndex,
                              draggedLayerId)
     IN layers' = ReorderedLayers(newOrder)
  /\ UNCHANGED <<layerVars, nextId>>

-----------------------------------------------------------------------------
(* src/unnamed/part_001 (App): comments.  A reply is stored in the replies  *)
(* of the top-level comment whose id is its parentId; parentId is NoId for  *)
(* a comment that is not a reply.                                           *)

commentVars == <<hookVars, dragState, clipboard, now, selectedTool, zoom,
                 listeners, pdfVars, exported, drawingState, trail, searchPanel,
                 highlightedElementId, layers, renderCache, probe>>

\* the body of handleCreateComment's setComments
createComment(cs, newComment) ==
  IF newComment.parentId # NoId
  THEN [i \in 1..Len(cs) |->
          IF cs[i].id = newComment.parentId
          THEN [cs[i] EXCEPT !.replies = Append(@, newComment)]
          ELSE cs[i]]
  ELSE Append(cs, newComment)

\* the body of handleUpdateComment's setComments
updateComment(cs, id, updates) ==
  [i \in 1..Len(cs) |->
     IF cs[i].id = id THEN Spread(cs[i], updates)
     ELSE [cs[i] EXCEPT !.replies =
             [k \in 1..Len(@) |-> IF @[k].id = id THEN Spread(@[k], updates)
                                  ELSE @[k]]]]

\* a deletion that moves the replies of the deleted comment to the top level
deleteCommentKeepReplies(cs, id) ==
  LET gone == SelectSeq(cs, LAMBDA c : c.id = id)
  IN SelectSeq(cs, LAMBDA c : c.id # id)
     \o (IF gone = <<>> THEN <<>> ELSE gone[1].replies)

\* the body of handleDeleteComment's setComments
deleteComment(cs, id) ==
  LET kept == SelectSeq(cs, LAMBDA c : c.id # id)
  IN [i \in 1..Len(kept) |->
        [kept[i] EXCEPT !.replies = SelectSeq(@, LAMBDA reply : reply.id # id)]]

\* AnnotationPanel.handleCreateComment -> App.handleCreateComment; parentId
\* is the panel's replyingTo, which may name a comment deleted since
handleCreateComment(parentId, content) ==
  /\ nextId <= MaxIds
  /\ comments' = createComment(comments,
                    [id |-> nextId, parentId |-> parentId, content |-> content,
                     resolved |-> FALSE, replies |-> <<>>])
  /\ nextId' = nextId + 1
  /\ UNCHANGED commentVars

\* handleResolveComment -> App.handleUpdateComment
handleUpdateComment(id, updates) ==
  /\ comments' = updateComment(comments, id, updates)
  /\ UNCHANGED <<commentVars, nextId>>

\* the delete button of a comment -> App.handleDeleteComment
handleDeleteComment(id) ==
  /\ comments' = deleteComment(comments, id)
  /\ UNCHANGED <<commentVars, nextId>>

-----------------------------------------------------------------------------
(* src/unnamed/part_009: PerformanceOptimizer *)

\* viewportBounds / (zoom / 100); the division is exact for the viewports and
\* zoom levels explored
ScaledBounds(viewportBounds, z) ==
  [x |-> ScreenToDoc(viewportBounds.x, z), y |-> ScreenToDoc(viewportBounds.y, z),
   width |-> ScreenToDoc(viewportBounds.width, z),
   height |-> ScreenToDoc(viewportBounds.height, z)]

\* a culling that also drops the elements that only touch the viewport
cullElementsDropTouching(els, viewportBounds, z) ==
  LET scaledBounds == ScaledBounds(viewportBounds, z)
  IN SelectSeq(els, LAMBDA element :
       ~ \/ element.x + element.width <= scaledBounds.x
         \/ element.x >= scaledBounds.x + scaledBounds.width
         \/ element.y + element.height <= scaledBounds.y
         \/ element.y >= scaledBounds.y + scaledBounds.height)

cullElements(els, viewportBounds, z) ==
  LET scaledBounds == ScaledBounds(viewportBounds, z)
  IN SelectSeq(els, LAMBDA element :
       ~ \/ element.x + element.width < scaledBounds.x
         \/ element.x > scaledBounds.x + scaledBounds.width
         \/ element.y + element.height < scaledBounds.y
         \/ element.y > scaledBounds.y + scaledBounds.height)

\* a call of cullElements
CullElements(els, viewportBounds, z) ==
  /\ probe' = [call |-> "cullElements", elements |-> els,
               viewportBounds |-> viewportBounds, zoom |-> z,
               result |-> cullElements(els, viewportBounds, z)]
  /\ UNCHANGED <<editorVars, searchPanel, highlightedElementId, layers, comments,
                 renderCache>>

\* pages.slice(startIndex, endIndex + 1), as the 0-based indexes of its pages;
\* both indexes are non-negative here
SliceIndexes(len, startIndex, endIndex) ==
  LET from == Min(startIndex, len)
      to == Min(endIndex + 1, len)
  IN [k \in 1..Max(to - from, 0) |-> from + k - 1]

\* Math.floor(a / b) for b > 0
Floor(a, b) == a \div b

calculateVisiblePages(len, containerHeight, scrollTop, pageHeight, buffer) ==
  LET startIndex == Max(0, Floor(scrollTop, pageHeight) - buffer)
      endIndex == Min(len - 1,
                      Floor(scrollTop + containerHeight, pageHeight) + buffer)
  IN [startIndex |-> startIndex, endIndex |-> endIndex,
      visiblePages |-> IF endIndex < 0 THEN <<>>
                       ELSE SliceIndexes(len, startIndex, endIndex)]

\* a call of calculateVisiblePages on a list of len pages
CalculateVisiblePages(len, containerHeight, scrollTop, pageHeight, buffer) ==
  /\ probe' = [call |-> "calculateVisiblePages", len |-> len,
               containerHeight |-> containerHeight, scrollTop |-> scrollTop,
               pageHeight |-> pageHeight, buffer |-> buffer,
               result |-> calculateVisiblePages(len, containerHeight, scrollTop,
                                                pageHeight, buffer)]
  /\ UNCHANGED <<editorVars, searchPanel, highlightedElementId, layers, comments,
                 renderCache>>

\* a call of exportDocument(document, options) with format png or jpg
ExportToImage(document, options) ==
  /\ probe' = [call |-> "exportToImage", document |-> document,
               options |-> options,
               result |-> exportToImage(document, options)]
  /\ UNCHANGED <<editorVars, searchPanel, highlightedElementId, layers, comments,
                 renderCache>>

\* Map.prototype.set: a present key keeps its place, a new one goes last
MapSet(map, key, value) ==
  IF \E i \in 1..Len(map) : map[i].key = key
  THEN [i \in 1..Len(map) |->
          IF map[i].key = key THEN [key |-> key, value |-> value] ELSE map[i]]
  ELSE Append(map, [key |-> key, value |-> value])

\* Map.prototype.delete(map.keys().next().value): nothing to delete in an
\* empty map
DeleteFirstKey(map) == IF map = <<>> THEN map ELSE Tail(map)

setCacheItem(cache, key, value, maxSize) ==
  MapSet(IF Len(cache) >= maxSize THEN DeleteFirstKey(cache) ELSE cache,
         key, value)

\* Map.prototype.get: the value, or undefined
getCacheItem(cache, key) ==
  IF \E i \in 1..Len(cache) : cache[i].key = key
  THEN Given(cache[CHOOSE i \in 1..Len(cache) : cache[i].key = key].value)
  ELSE NotGiven

cacheVars == <<editorVars, searchPanel, highlightedElementId, layers, comments>>

\* a call of setCacheItem
SetCacheItem(key, value, maxSize) ==
  /\ renderCache' = setCacheItem(renderCache, key, value, maxSize)
  /\ probe' = [call |-> "setCacheItem", key |-> key, maxSize |-> maxSize,
               before |-> renderCache]
  /\ UNCHANGED cacheVars

\* a call of getCacheItem
GetCacheItem(key) ==
  /\ probe' = [call |-> "getCacheItem", key |-> key, before |-> renderCache,
               result |-> getCacheItem(renderCache, key)]
  /\ UNCHANGED <<cacheVars, renderCache>>

\* a call of clearCache
ClearCache ==
  /\ renderCache' = <<>>
  /\ probe' = [call |-> "clearCache"]
  /\ UNCHANGED cacheVars

-----------------------------------------------------------------------------
(* The editor: MainCanvas on a new document, without pointer gestures and   *)
(* without the clipboard                                                    *)

Next ==
  \/ (currentDocument = Null /\ Len(pending) < MaxInflight /\ createNewStart)
  \/ \E i \in 1..MaxInflight : operationResolves(i)
  \/ (nextId <= EditorIds
      /\ \E t \in Texts, x \in ClickXs, y \in ClickYs : AddText(1, x, y, t))
  \/ \E id \in Ids : SelectElement(id)
  \/ PageClick
  \/ \E t \in {"select", "text"} : handleToolChange(t)
  \/ handleSelectAll
  \/ handleDelete
  \/ \E id \in Ids : DeleteElement(id)
  \/ Undo
  \/ Redo

Spec == Init /\ [][Next]_vars

-----------------------------------------------------------------------------
(* Selecting elements and switching between all the tools of the toolbar *)

NextTools ==
  \/ (currentDocument = Null /\ Len(pending) < MaxInflight /\ createNewStart)
  \/ \E i \in 1..MaxInflight : operationResolves(i)
  \/ (nextId <= EditorIds
      /\ \E t \in Texts, x \in ClickXs, y \in ClickYs : AddText(1, x, y, t))
  \/ \E id \in Ids : SelectElement(id)
  \/ PageClick
  \/ \E t \in ToolIds : handleToolChange(t)
  \/ handleSelectAll
  \/ \E id \in Ids : DeleteElement(id)
  \/ Undo
  \/ Redo

SpecTools == Init /\ [][NextTools]_vars

-----------------------------------------------------------------------------
(* Move gestures on the elements of a new document, with undo and redo *)

NextDrag ==
  \/ (currentDocument = Null /\ Len(pending) < MaxInflight /\ createNewStart)
  \/ \E i \in 1..MaxInflight : operationResolves(i)
  \/ \E t \in {"select", "text"} : handleToolChange(t)
  \/ (nextId <= DragIds
      /\ \E t \in Texts, x \in ClickXs, y \in ClickYs : AddText(1, x, y, t))
  \/ \E id \in Ids : SelectElement(id)
  \/ \E id \in Ids : DeleteElement(id)
  \/ Undo
  \/ Redo
  \/ \E id \in Ids : handleMouseDown(id, "move", "none", 0, 0)
  \/ \E p \in DragMoves :
       /\ InExploredArea(DispatchMouseMove(Store, listeners, p[1], p[2]))
       /\ MouseMove(p[1], p[2])
  \/ MouseUp

SpecDrag == Init /\ [][NextDrag]_vars

-----------------------------------------------------------------------------
(* Resize gestures at several zoom levels *)

NextResize ==
  \/ (currentDocument = Null /\ Len(pending) < MaxInflight /\ createNewStart)
  \/ \E i \in 1..MaxInflight : operationResolves(i)
  \/ \E t \in {"select", "text"} : handleToolChange(t)
  \/ (nextId <= DragIds
      /\ \E t \in Texts, x \in ClickXs, y \in ClickYs : AddText(1, x, y, t))
  \/ \E id \in Ids : SelectElement(id)
  \/ (zoom < MaxZoom /\ handleZoomIn)
  \/ (zoom > MinZoom /\ handleZoomOut)
  \/ handleZoomFit
  \/ \E id \in Ids, hd \in Handles : handleMouseDown(id, "resize", hd, 0, 0)
  \/ (historyIndex <= MaxResizes /\ \E p \in ResizeMoves : MouseMove(p[1], p[2]))
  \/ MouseUp

SpecResize == Init /\ [][NextResize]_vars

-----------------------------------------------------------------------------
(* Copy and paste while the clock runs *)

NextClipboard ==
  \/ (currentDocument = Null /\ Len(pending) < MaxInflight /\ createNewStart)
  \/ \E i \in 1..MaxInflight : operationResolves(i)
  \/ \E t \in {"select", "text"} : handleToolChange(t)
  \/ (nextId <= CopyIds
      /\ \E t \in Texts, x \in ClickXs, y \in ClickYs : AddText(1, x, y, t))
  \/ \E id \in Ids : SelectElement(id)
  \/ handleSelectAll
  \/ handleCopy
  \/ \E d \in {0, 1} : handlePaste(d)
  \/ \E d \in ClockSteps : Tick(d)

SpecClipboard == Init /\ [][NextClipboard]_vars

-----------------------------------------------------------------------------
(* Opening documents and exporting them as plain text *)

NextExport ==
  \/ (Len(pending) < MaxInflight /\ createNewStart)
  \/ (Len(pending) < MaxInflight /\ \E n \in PageCounts : loadPDFStart(n, "a.pdf"))
  \/ \E i \in 1..MaxInflight : operationResolves(i)
  \/ \E i \in 1..MaxInflight : operationRejects(i)
  \/ \E t \in {"select", "text"} : handleToolChange(t)
  \/ \E p \in PageCounts, t \in Texts, x \in ClickXs, y \in ClickYs :
       AddText(p, x, y, t)
  \/ Undo
  \/ Redo
  \/ \E o \in ExportOptions : handleExport(o)

SpecExport == Init /\ [][NextExport]_vars

-----------------------------------------------------------------------------
(* Drawing shapes on the page of a new document *)

NextShape ==
  \/ (currentDocument = Null /\ Len(pending) < MaxInflight /\ createNewStart)
  \/ \E i \in 1..MaxInflight : operationResolves(i)
  \/ \E t \in {"select", "shape"} : handleToolChange(t)
  \/ \E p \in ShapePoints : ShapeMouseDown(p[1], p[2])
  \/ \E p \in ShapePoints : ShapeMouseMove(p[1], p[2])
  \/ (nextId <= ShapeIds /\ ShapeMouseUp)
  \/ Undo
  \/ Redo

SpecShape == Init /\ [][NextShape]_vars

-----------------------------------------------------------------------------
(* The search panel *)

NextSearch ==
  \/ \E d \in SearchDocuments : OpenSearch(d)
  \/ CloseSearch
  \/ \E t \in SearchTerms : SetSearchTerm(t)
  \/ SearchTimerFires
  \/ handleNext
  \/ handlePrevious
  \/ HighlightExpires

SpecSearch == Init /\ [][NextSearch]_vars

-----------------------------------------------------------------------------
(* The match loop of performSearch; the loop runs to its end once started *)

NextLoop ==
  \/ \E text \in LoopTexts, pattern \in LoopPatterns :
       MatchLoopStart(text, pattern)
  \/ MatchLoopStep

SpecLoop == Init /\ [][NextLoop]_vars /\ WF_vars(MatchLoopStep)

-----------------------------------------------------------------------------
(* Documents opened while others are still being opened *)

LoadNames == {"a.pdf", "b.pdf"}

NextLoad ==
  \/ (Len(loadTrail) < MaxLoadEvents /\ createNewStart)
  \/ (Len(loadTrail) < MaxLoadEvents
      /\ \E n \in PageCounts, f \in LoadNames : loadPDFStart(n, f))
  \/ \E i \in 1..MaxLoads : operationResolves(i)
  \/ \E i \in 1..MaxLoads : operationRejects(i)

SpecLoad == Init /\ [][NextLoad]_vars

-----------------------------------------------------------------------------
(* Failed loads and the error banner *)

NextBanner ==
  \/ (Len(loadTrail) < MaxLoadEvents /\ createNewStart)
  \/ (Len(loadTrail) < MaxLoadEvents
      /\ \E n \in PageCounts, f \in LoadNames : loadPDFStart(n, f))
  \/ \E i \in 1..MaxLoads : operationResolves(i)
  \/ \E i \in 1..MaxLoads : operationRejects(i)
  \/ clearDocument

SpecBanner == Init /\ [][NextBanner]_vars

-----------------------------------------------------------------------------
(* Culling the elements outside a viewport *)

NextCull ==
  \E els \in CullLists, v \in CullViewports, z \in CullZooms :
    CullElements(els, v, z)

SpecCull == Init /\ [][NextCull]_vars

-----------------------------------------------------------------------------
(* The layer list *)

LayerIds == 0..MaxLayers

NextLayers ==
  \/ (nextId <= MaxLayers /\ \E n \in LayerNames : handleCreateLayer(n))
  \/ \E id \in LayerIds, u \in LayerUpdates : handleUpdateLayer(id, u)
  \/ \E id \in LayerIds : handleDeleteLayer(id)
  \/ \E a \in LayerIds, b \in LayerIds : handleDrop(a, b)

SpecLayers == Init /\ [][NextLayers]_vars

-----------------------------------------------------------------------------
(* Comments and their replies *)

CommentIds == 1..MaxComments

NextComments ==
  \/ (nextId <= MaxComments
      /\ \E parent \in CommentIds \cup {NoId} : handleCreateComment(parent, "Hello"))
  \/ \E id \in CommentIds, r \in BOOLEAN :
       handleUpdateComment(id, [resolved |-> r])
  \/ \E id \in CommentIds : handleDeleteComment(id)

SpecComments == Init /\ [][NextComments]_vars

-----------------------------------------------------------------------------
(* The render cache *)

CacheKeys == {"a", "b", "c"}
CacheValues == {"x", "y"}
CacheCaps == 0..MaxCap

NextCache ==
  \/ \E k \in CacheKeys, v \in CacheValues, m \in CacheCaps : SetCacheItem(k, v, m)
  \/ \E k \in CacheKeys : GetCacheItem(k)
  \/ ClearCache

SpecCache == Init /\ [][NextCache]_vars

-----------------------------------------------------------------------------
(* The window of pages a scrolled list shows *)

ListLengths == 0..MaxPages
ScrollTops == {ScrollStep * k : k \in 0..MaxScroll}
ContainerHeights == {200}
PageHeights == {100}
Buffers == {0, 1, 2}

NextVisible ==
  \E len \in ListLengths, c \in ContainerHeights, t \in ScrollTops,
     h \in PageHeights, b \in Buffers :
    CalculateVisiblePages(len, c, t, h, b)

SpecVisible == Init /\ [][NextVisible]_vars

-----------------------------------------------------------------------------
(* Exporting a document as an image *)

NextImage ==
  \E document \in ImageDocuments, options \in ImageOptions :
    ExportToImage(document, options)

SpecImage == Init /\ [][NextImage]_vars

-----------------------------------------------------------------------------
(* Properties *)

Mutation(calls) ==
  \/ /\ calls = 1
     /\ \/ \E t \in Texts, x \in ClickXs, y \in ClickYs : AddText(1, x, y, t)
        \/ \E id \in Ids : DeleteElement(id)
  \/ /\ calls = Len(selectedElementIds)
     /\ handleDelete

CursorInRange == historyIndex >= 0 /\ historyIndex < Len(history)

\* C2: a mutation committed after one or more undo() calls (the cursor c is
\* below the last snapshot) leaves the history as the old prefix S[0..c]
\* followed by what was committed, the cursor on the last snapshot, which is
\* the new element list, and canRedo false
C2_BranchTruncation ==
  [][(CursorInRange /\ canRedo /\ \E calls \in 1..MaxIds : Mutation(calls)) =>
       /\ Len(history') > historyIndex + 1
       /\ SliceTo(history', historyIndex + 1) = SliceTo(history, historyIndex + 1)
       /\ historyIndex' = Len(history') - 1
       /\ history'[Len(history')] = elements'
       /\ ~canRedo']_vars

\* C3: every call of addElement, updateElement or removeElement appends one
\* snapshot to the history (cut at the cursor), the last snapshot is the
\* element list after the mutation, and the cursor advances by one per call,
\* so that it points at that snapshot
C3_OneSnapshotPerCall ==
  [][\A calls \in 1..MaxIds :
       (CursorInRange /\ Mutation(calls)) =>
         /\ Len(history') = historyIndex + 1 + calls
         /\ history'[Len(history')] = elements'
         /\ historyIndex' = historyIndex + calls
         /\ historyIndex' = Len(history') - 1]_vars

\* C4: undo() with the cursor at 0 and redo() with the cursor at (or beyond)
\* the last snapshot change neither the element list nor the history nor the
\* cursor; otherwise undo() moves the cursor down by one and redo() up by
\* one, the cursor is on a snapshot and the element list becomes that
\* snapshot; no render fails
C4_UndoRedoSteps ==
  [][/\ Undo =>
          IF historyIndex = 0
          THEN UNCHANGED <<elements, history, historyIndex>>
          ELSE /\ historyIndex' = historyIndex - 1
               /\ history' = history
               /\ historyIndex' < Len(history)
               /\ elements' = history[historyIndex' + 1]
               /\ ~Crashed'
     /\ Redo =>
          IF historyIndex >= Len(history) - 1
          THEN UNCHANGED <<elements, history, historyIndex>>
          ELSE /\ historyIndex' = historyIndex + 1
               /\ history' = history
               /\ elements' = history[historyIndex' + 1]
               /\ ~Crashed']_vars

\* C5: a paste made within the staleness window returns as many elements as
\* were copied; their ids are pairwise distinct and differ from the ids of the
\* copied elements and of every element already in the list; the i-th
\* (0-indexed) lies at the copied element's position + (10 + 5i, 10 + 5i); and
\* every field other than id, pageNumber, x and y equals the copied element's
C5_ClipboardRoundTrip ==
  (trail.paste.made /\ trail.paste.time - trail.paste.clip.timestamp <= 300000) =>
    LET copied == trail.copied
        pasted == trail.paste.result
        n == Len(copied)
        before == SubSeq(elements, 1, Len(elements) - Len(pasted))
    IN /\ n > 0
       /\ Len(pasted) = n
       /\ \A i, j \in 1..n : i # j => pasted[i].id # pasted[j].id
       /\ \A i, j \in 1..n : pasted[i].id # copied[j].id
       /\ \A i \in 1..n : \A j \in 1..Len(before) : pasted[i].id # before[j].id
       /\ \A i \in 1..n :
            /\ pasted[i].x = copied[i].x + 10 + 5 * (i - 1)
            /\ pasted[i].y = copied[i].y + 10 + 5 * (i - 1)
            /\ \A f \in DOMAIN copied[i] \ {"id", "pageNumber", "x", "y"} :
                 pasted[i][f] = copied[i][f]

\* two copied elements were pasted
C5_Witness ==
  /\ trail.paste.made
  /\ Len(trail.copied) = 2
  /\ Len(trail.paste.result) = 2
  /\ trail.paste.result[2].x = trail.copied[2].x + 15

\* C6: a paste made more than 5 minutes after the copy returns no element and
\* clears the clipboard, and hasClipboardData() is false afterwards;
\* hasClipboardData() is true exactly when the clipboard holds data aged at
\* most 5 minutes; and at any instant a paste would return elements exactly
\* when hasClipboardData() is true
C6_ClipboardStaleness ==
  /\ (trail.paste.made /\ trail.paste.time - trail.paste.clip.timestamp > 300000) =>
       /\ trail.paste.result = <<>>
       /\ clipboard = Null
       /\ ~hasClipboardData(clipboard, now)
  /\ hasClipboardData(clipboard, now) <=>
       (clipboard # Null /\ clipboard.elements # <<>>
        /\ now - clipboard.timestamp <= 300000)
  /\ hasClipboardData(clipboard, now) <=>
       pasteElements(clipboard, now, nextId, NotGiven, DefaultOffset,
                     DefaultOffset).result # <<>>

\* the clipboard went stale between handlePaste's two readings of the clock
C6_Witness ==
  /\ trail.paste.made
  /\ trail.paste.time - trail.paste.clip.timestamp > 300000
  /\ trail.paste.result = <<>>
  /\ clipboard = Null

\* C7: for every resize handle and pointer position, the width and height
\* that a resize leaves in the element list are at least 20, and are exactly
\* 20 when the size the drag asks for is below 20
C7_ResizeFloor ==
  trail.write.made =>
    /\ \E i \in 1..Len(elements) : elements[i].id = trail.write.id
    /\ \A i \in 1..Len(elements) :
         elements[i].id = trail.write.id =>
           /\ elements[i].width >= 20
           /\ elements[i].height >= 20
           /\ trail.write.requested.width < 20 => elements[i].width = 20
           /\ trail.write.requested.height < 20 => elements[i].height = 20

\* the north-west handle was dragged into the element, past both floors
C7_Witness ==
  /\ trail.write.made
  /\ trail.write.handle = "nw"
  /\ trail.write.requested.width < 20
  /\ trail.write.requested.height < 20
  /\ \E i \in 1..Len(elements) :
       /\ elements[i].id = trail.write.id
       /\ elements[i].width = 20
       /\ elements[i].height = 20

\* C8: a complete gesture (pointer-down on a handle, one or more
\* pointer-moves, pointer-up) leaves the history one snapshot longer than it
\* was up to the cursor at pointer-down
C8_OneSnapshotPerGesture ==
  (trail.gesture.state = "done" /\ trail.gesture.moves >= 1) =>
    Len(history) = trail.gesture.len0 + 1

\* C9: selectElement(id, false) makes the selection exactly <<id>>;
\* selectElement(id, true) removes id if it was selected and adds it if it
\* was not, and changes the membership of no other id; select-all, which
\* calls it once per element, toggles exactly the ids of the elements
C9_SelectElement ==
  [][/\ \A id \in Ids : SelectElement(id) => selectedElementIds' = <<id>>
     /\ \A id \in Ids :
          LET replaced == selectElement(Store, id, FALSE)
              toggled == selectElement(Store, id, TRUE)
          IN /\ replaced.sel = <<id>>
             /\ Includes(toggled.sel, id) <=> ~Includes(selectedElementIds, id)
             /\ \A other \in Ids \ {id} :
                  Includes(toggled.sel, other) <=> Includes(selectedElementIds, other)
     /\ handleSelectAll =>
          \A id \in Ids :
            Includes(selectedElementIds', id) <=>
              (Includes(selectedElementIds, id) # Includes(IdsOf(elements), id))]_vars

\* two of three elements are selected: an additive call on a selected id
\* removes it, on the unselected id appends it, and a plain call replaces
\* the selection
C9_Witness ==
  /\ ~Crashed
  /\ Len(elements) = 3
  /\ selectedElementIds = <<1, 2>>
  /\ selectElement(Store, 1, TRUE).sel = <<2>>
  /\ selectElement(Store, 3, TRUE).sel = <<1, 2, 3>>
  /\ selectElement(Store, 3, FALSE).sel = <<3>>

\* the lines of an export hold the marker of page pageNumber and, after it,
\* the text
MarkerThenText(lines, pageNumber, text) ==
  \E m, n \in 1..Len(lines) :
    /\ m < n
    /\ lines[m] = PageMarker(pageNumber)
    /\ lines[n] = TextLine(text)

\* C10: a plain-text export of the open document contains, after the marker
\* of its page, the content of every text element that is in the element
\* list on an exported page
C10_ExportHasText ==
  exported # Null =>
    \A i \in 1..Len(exported.of) :
      (/\ exported.of[i].type = "text"
       /\ \E j \in 1..Len(getFilteredPages(exported.document,
                                            exported.options.pageRange)) :
            getFilteredPages(exported.document,
                             exported.options.pageRange)[j].pageNumber
              = exported.of[i].pageNumber)
      => /\ ~exported.result.threw
         /\ MarkerThenText(exported.result.lines, exported.of[i].pageNumber,
                           exported.of[i].text)

\* C11: when a shape gesture ends, no shape is created exactly when both the
\* drawn width and the drawn height are below 10; otherwise a shape is created
\* whose bounds are the min/max of the start and current points
C11_ShapeMinimumSize ==
  [][ShapeMouseUp =>
       LET ds == drawingState
           w == Abs(ds.currentX - ds.startX)
           h == Abs(ds.currentY - ds.startY)
       IN IF w < MinShapeSize /\ h < MinShapeSize
          THEN elements' = elements
          ELSE /\ Len(elements') = Len(elements) + 1
               /\ LET s == elements'[Len(elements')]
                  IN /\ s.x = Min(ds.startX, ds.currentX)
                     /\ s.y = Min(ds.startY, ds.currentY)
                     /\ s.x + s.width = Max(ds.startX, ds.currentX)
                     /\ s.y + s.height = Max(ds.startY, ds.currentY)]_vars

\* C12: with a non-empty result list of length L, next moves the current
\* result index from i to (i+1) mod L and previous from i to (i-1) mod L, and
\* the index stays in [0, L-1]
C12_CircularNavigation ==
  [][(searchPanel # Null /\ searchPanel.searchResults # <<>>) =>
       LET L == Len(searchPanel.searchResults)
           i == searchPanel.currentResultIndex
       IN /\ i \in 0..(L - 1)
          /\ handleNext => searchPanel'.currentResultIndex = (i + 1) % L
          /\ handlePrevious => searchPanel'.currentResultIndex = (i + L - 1) % L
          /\ (handleNext \/ handlePrevious) =>
               searchPanel'.searchResults = searchPanel.searchResults]_vars

\* the last of five results is current and highlighted: next leads from it to
\* the first, previous from the first back to it
C12_Witness ==
  /\ searchPanel # Null
  /\ Len(searchPanel.searchResults) = 5
  /\ searchPanel.currentResultIndex = 4
  /\ highlightedElementId = [id |-> searchPanel.searchResults[5].elementId]
  /\ navigateToResult(searchPanel, NextIndex(searchPanel)).panel.currentResultIndex = 0
  /\ PreviousIndex([searchPanel EXCEPT !.currentResultIndex = 0]) = 4

LastEvent == loadTrail[Len(loadTrail)]

\* C13: a failed load leaves the previously open document as the current
\* document and records an error message
C13_FailedLoadKeepsDocument ==
  (loadTrail # <<>> /\ LastEvent.ev = "rejected") =>
    /\ currentDocument = LastEvent.prev
    /\ error # Null

\* a load failed while a document was open
C13_Witness ==
  /\ loadTrail # <<>>
  /\ LastEvent.ev = "rejected"
  /\ LastEvent.prev # Null
  /\ currentDocument = LastEvent.prev
  /\ pending = <<>>

\* the operations of loadTrail that have completed, and those that succeeded
Completed == SelectSeq(loadTrail, LAMBDA e : e.ev # "started")
Succeeded == SelectSeq(loadTrail, LAMBDA e : e.ev = "resolved")

\* two operations were started, the second while the first was in flight, and
\* both have completed
RaceOver ==
  /\ pending = <<>>
  /\ Len(loadTrail) = 4
  /\ loadTrail[1].ev = "started"
  /\ loadTrail[2].ev = "started"

\* C14: when two loads were in flight at once and both have completed, the
\* current document is the result of the one that completed last, and a load
\* that failed has not replaced the result of one that succeeded
C14_LastCompletionWins ==
  (RaceOver /\ Succeeded # <<>>) =>
    currentDocument = Succeeded[Len(Succeeded)].document

\* two loads raced, both succeeded with different documents, and the document
\* of the second completion is current
C14_Witness ==
  /\ RaceOver
  /\ Len(Succeeded) = 2
  /\ Succeeded[1].document # Succeeded[2].document
  /\ currentDocument = Succeeded[2].document

\* the closed intervals [lo1, hi1] and [lo2, hi2] share a point
Meet(lo1, hi1, lo2, hi2) == Max(lo1, lo2) <= Min(hi1, hi2)

\* the bounds of element e intersect the viewport v converted by zoom z,
\* compared without dividing
Visible(e, v, z) ==
  /\ Meet(e.x * z, (e.x + e.width) * z, v.x * 100, (v.x + v.width) * 100)
  /\ Meet(e.y * z, (e.y + e.height) * z, v.y * 100, (v.y + v.height) * 100)

\* C15: cullElements returns, in input order, exactly the elements whose
\* bounds intersect the viewport converted by zoom / 100; an element that only
\* touches the viewport's boundary is included
C15_CullElements ==
  (probe # Null /\ probe.call = "cullElements") =>
    probe.result = SelectSeq(probe.elements,
                     LAMBDA e : Visible(e, probe.viewportBounds, probe.zoom))

\* the viewport covers (100, 100)-(200, 200): of two elements, the first ends
\* one unit left of it and is dropped, the second touches its top edge and is
\* kept
C15_Witness ==
  /\ probe # Null
  /\ probe.call = "cullElements"
  /\ probe.zoom = 100
  /\ probe.viewportBounds.x = 100
  /\ Len(probe.elements) = 2
  /\ probe.elements[1].x = 89
  /\ probe.elements[2].y = 90
  /\ probe.result = <<probe.elements[2]>>

DefaultLayers == {i \in 1..Len(layers) : layers[i].id = DefaultLayerId}

\* a delete request made while one layer remains leaves the list unchanged
LastLayerStays ==
  [][\A id \in LayerIds :
       (Len(layers) = 1 /\ handleDeleteLayer(id)) => layers' = layers]_vars

\* C16: after any sequence of layer create, update, delete and reorder
\* operations, exactly one default layer exists in the layer list
C16_OneDefaultLayer == Cardinality(DefaultLayers) = 1

\* the ids of the top-level comments of cs, and the replies stored in cs
TopLevelIds(cs) == {cs[i].id : i \in 1..Len(cs)}
StoredReplies(cs) ==
  UNION {{cs[i].replies[k] : k \in 1..Len(cs[i].replies)} : i \in 1..Len(cs)}
    \cup {cs[i] : i \in {j \in 1..Len(cs) : cs[j].parentId # NoId}}

\* every reply stored in cs is held by the top-level comment that is its parent
NoOrphans(cs) ==
  /\ \A i \in 1..Len(cs) :
       /\ cs[i].parentId = NoId
       /\ \A k \in 1..Len(cs[i].replies) : cs[i].replies[k].parentId = cs[i].id
  /\ \A r \in StoredReplies(cs) : r.parentId \in TopLevelIds(cs)

\* C17: after any sequence of comment create, update and delete operations
\* every stored reply is held under a parent that exists in the top-level
\* comment set, and deleting a top-level comment removes all of its replies
C17_NoOrphanedReply ==
  [][/\ NoOrphans(comments')
     /\ \A id \in TopLevelIds(comments) :
          handleDeleteComment(id) =>
            /\ id \notin TopLevelIds(comments')
            /\ \A r \in StoredReplies(comments) :
                 r.parentId = id => r \notin StoredReplies(comments')]_vars

\* comment 1 and its reply 2 are gone; comment 3 holds its reply 4, and
\* deleting comment 3 leaves nothing
C17_Witness ==
  /\ Len(comments) = 1
  /\ comments[1].id = 3
  /\ Len(comments[1].replies) = 1
  /\ comments[1].replies[1].id = 4
  /\ comments[1].replies[1].parentId = 3
  /\ deleteComment(comments, 3) = <<>>

KeysOf(cache) == [i \in 1..Len(cache) |-> cache[i].key]

\* the same for the caps of at least 1
BoundedCacheFromOne ==
  (probe # Null /\ probe.call = "setCacheItem" /\ probe.maxSize >= 1
   /\ Len(probe.before) <= probe.maxSize) =>
    /\ Len(renderCache) <= probe.maxSize
    /\ Len(probe.before) = probe.maxSize =>
         /\ \A i \in 2..Len(probe.before) :
              probe.before[i].key # probe.key =>
                Includes(KeysOf(renderCache), probe.before[i].key)
         /\ probe.before[1].key # probe.key =>
              ~Includes(KeysOf(renderCache), probe.before[1].key)

\* a read leaves the cache as it was
ReadsKeepOrder ==
  (probe # Null /\ probe.call = "getCacheItem") => renderCache = probe.before

\* C18: for every cap m, a cache filled by setCacheItem calls using that cap
\* never holds more than m entries; an insertion at the cap evicts the entry
\* inserted earliest among those present, and a read changes nothing
C18_BoundedCache ==
  (probe # Null /\ probe.call = "setCacheItem"
   /\ Len(probe.before) <= probe.maxSize) =>
    /\ Len(renderCache) <= probe.maxSize
    /\ Len(probe.before) = probe.maxSize =>
         \A i \in 2..Len(probe.before) :
           probe.before[i].key # probe.key =>
             Includes(KeysOf(renderCache), probe.before[i].key)

\* item i of a list of items of height h occupies [i * h, (i + 1) * h]; it is
\* within overscan b of the scrolled viewport when the item b places before
\* or after it intersects [scrollTop, scrollTop + containerHeight]
InWindow(i, p) ==
  \E j \in (i - p.buffer)..(i + p.buffer) :
    /\ j * p.pageHeight < p.scrollTop + p.containerHeight
    /\ (j + 1) * p.pageHeight > p.scrollTop

\* C19: calculateVisiblePages returns a startIndex and an endIndex that both
\* lie in [0, items.length - 1] and cover every item whose extent intersects
\* the scrolled viewport, extended by the overscan on each side, for every
\* scroll offset and every list length
C19_VisibleRange ==
  (probe # Null /\ probe.call = "calculateVisiblePages") =>
    /\ probe.result.startIndex \in 0..(probe.len - 1)
    /\ probe.result.endIndex \in 0..(probe.len - 1)
    /\ \A i \in 0..(probe.len - 1) :
         InWindow(i, probe) =>
           probe.result.startIndex <= i /\ i <= probe.result.endIndex

\* the same for a list that is not empty and a scroll offset within it
VisibleRangeWithinList ==
  (probe # Null /\ probe.call = "calculateVisiblePages" /\ probe.len > 0
   /\ probe.scrollTop < probe.len * probe.pageHeight) =>
    /\ probe.result.startIndex \in 0..(probe.len - 1)
    /\ probe.result.endIndex \in 0..(probe.len - 1)
    /\ \A i \in 0..(probe.len - 1) :
         InWindow(i, probe) =>
           probe.result.startIndex <= i /\ i <= probe.result.endIndex

\* a bound of a page range moved into 1..n
ClampPage(v, n) == Max(1, Min(v, n))

\* C20: for any requested page range [from, to], a png or jpg export renders
\* exactly one page: the lowest-numbered page of the document whose number
\* lies in the range after the range is clamped to the number of pages of the
\* document (stated for documents that carry an element list and ranges with
\* from <= to)
C20_RasterExportFirstPageOfClampedRange ==
  (probe # Null /\ probe.call = "exportToImage"
   /\ probe.document.elements # Undefined
   /\ probe.options.pageRange # Null
   /\ probe.options.pageRange.from <= probe.options.pageRange.to) =>
    /\ ~probe.result.threw
    /\ probe.result.painted
         = <<ClampPage(probe.options.pageRange.from,
                       Len(probe.document.pages))>>

\* the same for a range that holds a page of the document
RasterExportFirstPageInRange ==
  (probe # Null /\ probe.call = "exportToImage"
   /\ probe.document.elements # Undefined
   /\ probe.options.pageRange # Null
   /\ probe.options.pageRange.from <= Len(probe.document.pages)
   /\ probe.options.pageRange.to >= 1
   /\ probe.options.pageRange.from <= probe.options.pageRange.to) =>
    /\ ~probe.result.threw
    /\ probe.result.painted
         = <<ClampPage(probe.options.pageRange.from,
                       Len(probe.document.pages))>>

\* a document as usePDF builds it: the export is rejected whatever the range
RasterExportOfOpenedDocumentThrows ==
  (probe # Null /\ probe.call = "exportToImage"
   /\ probe.document.elements = Undefined) => probe.result.threw

\* C21: switching the active tool to any tool other than select leaves the
\* selection empty immediately after the switch; switching to select leaves
\* the selection unchanged
C21_ToolChangeSelection ==
  [][\A toolId \in ToolIds :
       handleToolChange(toolId) =>
         /\ selectedTool' = toolId
         /\ toolId # "select" => selectedElementIds' = <<>>
         /\ toolId = "select" => selectedElementIds' = selectedElementIds]_vars

\* two elements are selected while the highlighter is active: a switch to
\* the select tool has a selection to keep, a switch to any other tool one
\* to clear
C21_Witness ==
  /\ ~Crashed
  /\ selectedTool = "highlighter"
  /\ selectedElementIds = <<1, 2>>
  /\ clearSelection(Store).sel = <<>>

\* element id of the list els has the position (x, y) and the size (w, h)
PlacedAt(els, id, x, y, w, h) ==
  \E i \in 1..Len(els) :
    /\ els[i].id = id
    /\ els[i].x = x /\ els[i].y = y
    /\ els[i].width = w /\ els[i].height = h

\* C22: during a move gesture (pointer-down on the move handle followed by
\* pointer-moves) each pointer-move sets the element's position in the store
\* to its start position plus (pointer position - pointer position at
\* pointer-down) divided by zoom / 100, and leaves width and height unchanged
C22_MoveGesture ==
  [][\A p \in DragMoves :
       (trail.gesture.state = "dragging" /\ MouseMove(p[1], p[2])) =>
         \A id \in Ids :
           (dragState[id] # Null /\ dragState[id].dragType = "move") =>
             PlacedAt(elements', id,
                      dragState[id].startElementX
                        + ScreenToDoc(p[1] - dragState[id].startX, zoom),
                      dragState[id].startElementY
                        + ScreenToDoc(p[2] - dragState[id].startY, zoom),
                      dragState[id].startElementWidth,
                      dragState[id].startElementHeight)]_vars

InMatchLoop == probe # Null /\ probe.call = "matchLoop"

\* C23: the match loop of performSearch terminates for every pattern and
\* every text, patterns with zero-width matches included: a loop that was
\* started reaches its end
C23_MatchLoopTerminates ==
  (InMatchLoop /\ ~probe.done) ~> (InMatchLoop /\ probe.done)

\* the loop has ended on a text whose every position holds a zero-width
\* match of the pattern
C23_Witness ==
  /\ InMatchLoop /\ probe.done
  /\ probe.text = "Hello" /\ probe.pattern = [kind |-> "bol", s |-> ""]
  /\ probe.results = <<[matchStart |-> 0, matchEnd |-> 0]>>

\* after each match the scan position strictly advances
ScanAdvances ==
  [][(MatchLoopStep /\ ~probe'.done) => probe'.lastIndex > probe.lastIndex]_vars

\* an element yields at most one result per position of its text and one at
\* its end, and for a literal the results are those of performSearch
MatchLoopResults ==
  InMatchLoop =>
    /\ Len(probe.results) <= Len(probe.text) + 1
    /\ (probe.done /\ probe.pattern.kind = "lit") =>
         probe.results = ExecAll(probe.text, probe.pattern.s, 0)

\* C24: after any sequence of operations, several mutations issued from one
\* event handler included (multi-select delete, multi-element paste), the
\* history cursor satisfies 0 <= historyIndex <= history.length - 1
C24_CursorWithinHistory ==
  0 <= historyIndex /\ historyIndex <= Len(history) - 1

\* C25: in every reachable state the current element list is the snapshot at
\* the cursor, elements = history[historyIndex], so that an undo issued when
\* canUndo is true restores the list before the most recent mutation
C25_ElementsAtCursor ==
  elements = At(history, historyIndex)

\* the same for the steps of a handler that issues at most one mutation,
\* taken from a state in which it holds
SingleMutationKeepsCursor ==
  [][(C25_ElementsAtCursor /\ ~handleDelete) => C25_ElementsAtCursor']_vars

\* C26: after any sequence of add, remove, select, clear-selection, undo and
\* redo operations, every id in the selection is the id of an element of the
\* current element list
C26_SelectionWithinElements ==
  \A i \in 1..Len(selectedElementIds) :
    Includes(IdsOf(elements), selectedElementIds[i])

\* the same for the steps other than undo and redo, taken from a state in
\* which it holds
SelectionKeptByEdits ==
  [][(C26_SelectionWithinElements /\ ~Undo /\ ~Redo) =>
       C26_SelectionWithinElements']_vars

\* C27: after handleSelectAll the selection is the set of the ids of all
\* elements of the current element list, whatever the selection was before
C27_SelectAllSelectsAll ==
  [][handleSelectAll =>
       {selectedElementIds'[i] : i \in 1..Len(selectedElementIds')}
         = {elements[i].id : i \in 1..Len(elements)}]_vars

\* the same when nothing was selected before
SelectAllFromEmptySelection ==
  [][(handleSelectAll /\ selectedElementIds = <<>>) =>
       selectedElementIds' = IdsOf(elements)]_vars

NoResults ==
  IF searchPanel = Null THEN FALSE ELSE searchPanel.searchResults = <<>>

\* C28: when the search result list is empty, next and previous are no-ops:
\* the current result index stays a valid number, no element is highlighted
\* and no error is raised
C28_EmptyResultsNavigation ==
  [][NoResults =>
       /\ handleNext =>
            /\ ~navigateToResult(searchPanel, NextIndex(searchPanel)).threw
            /\ searchPanel'.currentResultIndex # NaN
            /\ UNCHANGED <<searchPanel, highlightedElementId>>
       /\ handlePrevious =>
            /\ ~navigateToResult(searchPanel, PreviousIndex(searchPanel)).threw
            /\ searchPanel'.currentResultIndex # NaN
            /\ UNCHANGED <<searchPanel, highlightedElementId>>]_vars

\* previous with no results changes nothing and raises nothing
PreviousWithoutResults ==
  NoResults =>
    LET r == navigateToResult(searchPanel, PreviousIndex(searchPanel))
    IN ~r.threw /\ r.panel = searchPanel /\ r.highlight = Null

\* C29: isLoading is true in every state in which at least one operation
\* started through usePDF is still in flight, and false once all of them
\* have completed; the completion of one operation does not clear it while
\* another is still running
C29_LoadingWhileInFlight ==
  isLoading <=> pending # <<>>

\* isLoading is false whenever nothing is in flight, and true while exactly
\* one operation has been started and has not completed
LoadingWithOneOperation ==
  /\ pending = <<>> => ~isLoading
  /\ (Len(pending) = 1 /\ LastEvent.ev = "started") => isLoading

\* C30: dismissing the error message shown after a failed load, create or
\* export clears only the error: the open document is the same before and
\* after the dismissal
C30_DismissKeepsDocument ==
  [][clearDocument =>
       /\ error' = Null
       /\ currentDocument' = currentDocument]_vars

\* the dismissal clears the error and leaves no document open
DismissClosesDocument ==
  [][clearDocument => (error' = Null /\ currentDocument' = Null)]_vars

====
